---- MODULE Spec2Model ----
(***************************************************************************)
(* gem2claude: an Anthropic Messages API front end served from Gemini.     *)
(* State machines of the streaming translator and its handler, the         *)
(* <think>-tag extractor, the thought-signature store, the OAuth token    *)
(* manager, the model health tracker, with_retry, the upstream SSE parser, *)
(* the tool-schema sanitizer, request translation, the model table and the *)
(* /v1/messages route, transcribed from the Rust sources.                  *)
(*                                                                         *)
(* Rust Option::None is the string "None"; an Option<usize> that is None   *)
(* is -1.  Strings are TLA+ strings (sequences of characters).             *)
(***************************************************************************)
EXTENDS Integers, Sequences, FiniteSets, TLC

VARIABLES
    translator,        \* StreamTranslator fields (one instance per request)
    SIGNATURE_STORE,   \* signature_store::SIGNATURE_STORE, tool_use_id -> signature
    uuid_next,         \* number of uuid::Uuid::new_v4() values drawn so far
    issued,            \* history: FunctionCall parts received, with the id minted for each
    sse_out,           \* items the streaming handler has yielded to the client
    handler_pc,        \* position of stream_messages_handler's loop
    chunk_count,       \* handler's chunk_count
    last_call,         \* history: the chunk last translated and the events returned for it
    parts_fed,         \* upstream parts consumed so far (bounds the exploration)
    pings,             \* keep-alive pings yielded so far (bounds the exploration)
    think_text,        \* extractor run: the whole text the upstream sends
    think_cuts,        \* extractor run: the offsets at which the text was cut so far
    stripper,          \* extractor run: thinking_buffer and in_thinking
    think_segments,    \* extractor run: the segments returned so far, in order
    unary_result,      \* what translate_response returned for the last unary response
    last_request,      \* the messages of the last request translated
    gemini_contents,   \* what translate_messages returned for them
    auto_refresh,      \* OAuthConfig.auto_refresh
    credentials,       \* OAuthManager.credentials (the RwLock's value)
    read_guards,       \* callers holding a read guard of credentials across an await
    refresh_lock,      \* OAuthManager.refresh_lock: the caller holding it, or NoHolder
    disk,              \* access token in the credentials file, -1 for a truncated file
    callers,           \* each get_token caller: position, locals and result
    calls,             \* get_token calls made so far (bounds the exploration)
    http_posts,        \* history: POSTs sent to the OAuth token endpoint
    bad_answers,       \* history: answers that were not a token outliving the refresh buffer
    expiries,          \* history: times a token in use was found to have run out
    health,            \* ModelAvailabilityService.health: model -> status
    last_upstream,     \* history: the last upstream generation call and its answer
    retry,             \* one with_retry run: attempt, backoff, delay, waits and result
    sse,               \* one parse_sse_stream run: bytes to come, buffer, items yielded
    schema,            \* a tool's input_schema and what sanitize_schema made of it
    request,           \* a client request as it is built, and what translate_request made of it
    mapping,           \* the last map_model call: the name asked for and the result
    http,              \* the last POST /v1/messages: the request and the response sent
    parsed,            \* the last parse_retry_delay call: the details and the result
    logged,            \* the last logging::sanitize call: the input and the output
    cache              \* the context cache and the last request served through it

None == "None"

(***************************************************************************)
(* Bounds of the exploration.                                              *)
(***************************************************************************)
MaxChunks == 2
MaxParts == 2
MaxPings == 1
MaxFragments == 3
MaxFeeds == 2

(***************************************************************************)
(* Program constants.                                                      *)
(***************************************************************************)
BufferLimit == 10485760
OpenTag == "<think>"
CloseTag == "</think>"

Min(S) == CHOOSE x \in S : \A y \in S : x <= y

(***************************************************************************)
(* The <think>-tag extractor.                                              *)
(***************************************************************************)

\* str::find: byte offset of the first occurrence of tag in text, or -1.
Find(text, tag) ==
    LET n == Len(text)
        m == Len(tag)
        hits == { i \in 0..(n - m) : SubSeq(text, i + 1, i + m) = tag }
    IN IF hits = {} THEN -1 ELSE Min(hits)

\* str::ends_with
EndsWith(text, suffix) ==
    /\ Len(suffix) <= Len(text)
    /\ SubSeq(text, Len(text) - Len(suffix) + 1, Len(text)) = suffix

\* Mutant: a partial tag at the end of the text is never held back.
find_partial_tag_never(text, tag) == -1

\* StreamTranslator::find_partial_tag: the loop returns at the first (shortest)
\* proper prefix of the tag that the text ends with.
find_partial_tag(text, tag) ==
    LET ends == { i \in 1..(Len(tag) - 1) : EndsWith(text, SubSeq(tag, 1, i)) }
    IN IF ends = {} THEN -1 ELSE Len(text) - Min(ends)

\* segments.push((kind, content)) guarded by !content.is_empty()
PushSegment(segments, kind, content) ==
    IF content = "" THEN segments
    ELSE Append(segments, [kind |-> kind, content |-> content])

\* s[from..] with a 0-based byte offset
StrFrom(s, from) == SubSeq(s, from + 1, Len(s))
\* s[..to] with a 0-based byte offset
StrTo(s, to) == SubSeq(s, 1, to)

\* The `loop` of process_text_chunk.
RECURSIVE process_loop(_, _, _)
process_loop(in_thinking, full_text, segments) ==
    LET tag == IF in_thinking THEN CloseTag ELSE OpenTag
        kind == IF in_thinking THEN "Thinking" ELSE "Text"
        idx == Find(full_text, tag)
        partial_idx == find_partial_tag(full_text, tag)
    IN IF idx # -1
       THEN process_loop(~in_thinking,
                         StrFrom(full_text, idx + Len(tag)),
                         PushSegment(segments, kind, StrTo(full_text, idx)))
       ELSE IF partial_idx # -1
       THEN [segments |-> PushSegment(segments, kind, StrTo(full_text, partial_idx)),
             in_thinking |-> in_thinking,
             thinking_buffer |-> StrFrom(full_text, partial_idx)]
       ELSE [segments |-> PushSegment(segments, kind, full_text),
             in_thinking |-> in_thinking,
             thinking_buffer |-> ""]

\* StreamTranslator::process_text_chunk, on the extractor's two fields.
process_text_chunk(thinking_buffer, in_thinking, text) ==
    LET full_text == thinking_buffer \o text
    IN IF Len(full_text) > BufferLimit
       THEN [segments |-> <<[kind |-> IF in_thinking THEN "Thinking" ELSE "Text",
                             content |-> full_text]>>,
             in_thinking |-> in_thinking,
             thinking_buffer |-> ""]
       ELSE process_loop(in_thinking, full_text, <<>>)

(***************************************************************************)
(* Anthropic stream events (models::streaming::StreamEvent).  One record   *)
(* shape for all variants: index is -1 where the variant has none; kind is *)
(* the block kind of a start, the delta kind of a delta, the stop_reason   *)
(* of a message_delta, the error_type of an error; text is the payload     *)
(* (the tool id for a ToolUse start); tokens is the usage figure carried.  *)
(***************************************************************************)
Ev(type, index, kind, text, tokens) ==
    [type |-> type, index |-> index, kind |-> kind, text |-> text, tokens |-> tokens]

MessageStartEv(input_tokens) == Ev("message_start", -1, None, "", input_tokens)
ContentBlockStartEv(index, kind, id) == Ev("content_block_start", index, kind, id, 0)
ContentBlockDeltaEv(index, kind, text) == Ev("content_block_delta", index, kind, text, 0)
ContentBlockStopEv(index) == Ev("content_block_stop", index, None, "", 0)
MessageDeltaEv(stop_reason, output_tokens) ==
    Ev("message_delta", -1, stop_reason, "", output_tokens)
MessageStopEv == Ev("message_stop", -1, None, "", 0)
ErrorEv(error_type) == Ev("error", -1, error_type, "", 0)
\* The two raw strings the handler writes that are no StreamTranslator event.
KeepAliveComment == Ev("keepalive", -1, None, "", 0)
PingEv == Ev("ping", -1, None, "", 0)

(***************************************************************************)
(* The signature store.                                                    *)
(***************************************************************************)
EmptyStore == [id \in {} |-> ""]

\* signature_store::store_signature (HashMap::insert)
store_signature(store, tool_use_id, thought_signature) ==
    [id \in DOMAIN store \cup {tool_use_id} |->
        IF id = tool_use_id THEN thought_signature ELSE store[id]]

\* signature_store::get_signature
get_signature(store, tool_use_id) ==
    IF tool_use_id \in DOMAIN store THEN store[tool_use_id] ELSE None

\* format!("toolu_{}", uuid::Uuid::new_v4().simple()): the n-th fresh id
ToolId(n) == "toolu_" \o ToString(n)

(***************************************************************************)
(* StreamTranslator.  The operators below work on a record s holding the   *)
(* translator's fields together with what one translate_chunk call         *)
(* touches: events (the Vec being built), store (SIGNATURE_STORE), uuid    *)
(* (ids drawn) and issued (history of function calls received).            *)
(***************************************************************************)

\* StreamTranslator::new
NewTranslator ==
    [input_tokens |-> 0, output_tokens |-> 0, first_chunk |-> TRUE,
     current_block_index |-> 0, current_block_type |-> None,
     had_tool_use |-> FALSE, accumulated_text |-> "",
     thinking_buffer |-> "", in_thinking |-> FALSE]

TranslatorFields == DOMAIN NewTranslator

Emit(s, e) == [s EXCEPT !.events = Append(@, e)]

\* Mutant: the block is left without its ContentBlockStop being emitted.
close_block_silent(s) ==
    [s EXCEPT !.current_block_index = @ + 1, !.current_block_type = None]

\* events.push(ContentBlockStop); current_block_index += 1; current_block_type = None
close_block(s) ==
    [Emit(s, ContentBlockStopEv(s.current_block_index)) EXCEPT
        !.current_block_index = @ + 1,
        !.current_block_type = None]

\* "Start ... block if needed"
open_block_if_none(s, block_type) ==
    IF s.current_block_type = None
    THEN [Emit(s, ContentBlockStartEv(s.current_block_index, block_type, "")) EXCEPT
            !.current_block_type = block_type]
    ELSE s

\* Part::Text with thought == Some(true)
native_thinking(s, text, thought_signature) ==
    LET s1 == IF s.current_block_type # None /\ s.current_block_type # "Thinking"
              THEN close_block(s) ELSE s
        s2 == open_block_if_none(s1, "Thinking")
        s3 == Emit(s2, ContentBlockDeltaEv(s2.current_block_index, "thinking_delta", text))
    IN IF thought_signature # None
       THEN Emit(s3, ContentBlockDeltaEv(s3.current_block_index, "signature_delta",
                                         thought_signature))
       ELSE s3

\* Part::Thought: the same steps on the part's thought string
thought_part(s, thought, thought_signature) ==
    native_thinking(s, thought, thought_signature)

StartsWith(text, prefix) ==
    Len(prefix) <= Len(text) /\ SubSeq(text, 1, Len(prefix)) = prefix

\* The body of `for (block_type, content) in segments`
emit_segment(s, block_type, content) ==
    LET s1 == IF s.current_block_type # None /\ s.current_block_type # block_type
              THEN close_block(s) ELSE s
        s2 == open_block_if_none(s1, block_type)
        full_accum == s2.accumulated_text \o content
        delta_content ==
            IF block_type = "Text"
            THEN IF StartsWith(full_accum, s2.accumulated_text)
                 THEN StrFrom(full_accum, Len(s2.accumulated_text))
                 ELSE content
            ELSE content
        s3 == IF block_type = "Text"
              THEN [s2 EXCEPT !.accumulated_text = full_accum] ELSE s2
        delta_kind == IF block_type = "Text" THEN "text_delta" ELSE "thinking_delta"
    IN IF delta_content # ""
       THEN Emit(s3, ContentBlockDeltaEv(s3.current_block_index, delta_kind, delta_content))
       ELSE s3

RECURSIVE emit_segments(_, _)
emit_segments(s, segments) ==
    IF segments = <<>> THEN s
    ELSE emit_segments(emit_segment(s, Head(segments).kind, Head(segments).content),
                       Tail(segments))

\* Part::Text without thought: the <think> extractor, then one block step per segment
plain_text_part(s, text) ==
    LET r == process_text_chunk(s.thinking_buffer, s.in_thinking, text)
        s1 == [s EXCEPT !.thinking_buffer = r.thinking_buffer,
                        !.in_thinking = r.in_thinking]
    IN emit_segments(s1, r.segments)

\* Mutant: the tool block is opened without closing the block that is open.
function_call_part_no_close(s, name, thought_signature) ==
    LET tool_id == ToolId(s.uuid + 1)
        s2 == [s EXCEPT !.uuid = @ + 1,
                        !.issued = Append(@, [id |-> tool_id, sig |-> thought_signature,
                                              path |-> "stream"])]
        s4 == Emit(s2, ContentBlockStartEv(s2.current_block_index, "ToolUse", tool_id))
        s5 == Emit(s4, ContentBlockDeltaEv(s4.current_block_index, "input_json_delta", "{}"))
        s6 == Emit(s5, ContentBlockStopEv(s5.current_block_index))
    IN [s6 EXCEPT !.current_block_index = @ + 1,
                  !.current_block_type = None,
                  !.had_tool_use = TRUE]

\* Part::FunctionCall
function_call_part(s, name, thought_signature) ==
    LET s1 == IF s.current_block_type # None THEN close_block(s) ELSE s
        tool_id == ToolId(s1.uuid + 1)
        s2 == [s1 EXCEPT !.uuid = @ + 1,
                         !.issued = Append(@, [id |-> tool_id, sig |-> thought_signature,
                                               path |-> "stream"])]
        s3 == IF thought_signature # None
              THEN [s2 EXCEPT !.store = store_signature(@, tool_id, thought_signature)]
              ELSE s2
        s4 == Emit(s3, ContentBlockStartEv(s3.current_block_index, "ToolUse", tool_id))
        s5 == Emit(s4, ContentBlockDeltaEv(s4.current_block_index, "input_json_delta", "{}"))
        s6 == Emit(s5, ContentBlockStopEv(s5.current_block_index))
    IN [s6 EXCEPT !.current_block_index = @ + 1,
                  !.current_block_type = None,
                  !.had_tool_use = TRUE]

\* `match part` of translate_chunk
translate_stream_part(s, part) ==
    CASE part.kind = "Text" ->
            IF part.thought THEN native_thinking(s, part.text, part.sig)
            ELSE plain_text_part(s, part.text)
      [] part.kind = "Thought" -> thought_part(s, part.text, part.sig)
      [] part.kind = "InlineData" -> s
      [] part.kind = "FunctionCall" -> function_call_part(s, part.text, part.sig)
      [] part.kind = "FunctionResponse" -> s

RECURSIVE translate_stream_parts(_, _)
translate_stream_parts(s, parts) ==
    IF parts = <<>> THEN s
    ELSE translate_stream_parts(translate_stream_part(s, Head(parts)), Tail(parts))

\* response.rs map_stop_reason (the unary table)
map_stop_reason(finish_reason) ==
    CASE finish_reason = "STOP" -> "end_turn"
      [] finish_reason = "MAX_TOKENS" -> "max_tokens"
      [] finish_reason = "SAFETY" -> "stop_sequence"
      [] finish_reason = "RECITATION" -> "stop_sequence"
      [] OTHER -> None

\* "Set stop reason correctly" of translate_chunk
stream_stop_reason(had_tool_use, finish_reason) ==
    IF had_tool_use /\ finish_reason = "STOP" THEN "tool_use"
    ELSE CASE finish_reason = "STOP" -> "end_turn"
           [] finish_reason = "MAX_TOKENS" -> "max_tokens"
           [] OTHER -> None

\* `if let Some(finish_reason) = candidate.finish_reason`
finish_chunk(s, finish_reason, usage) ==
    LET s1 == IF usage.present THEN [s EXCEPT !.output_tokens = usage.candidates]
              ELSE s
        s2 == IF s1.current_block_type # None
              THEN Emit(s1, ContentBlockStopEv(s1.current_block_index))
              ELSE s1
        s3 == Emit(s2, MessageDeltaEv(stream_stop_reason(s2.had_tool_use, finish_reason),
                                      s2.output_tokens))
    IN Emit(s3, MessageStopEv)

\* Mutant: first_chunk stays set.
first_chunk_step_keeps_flag(s, chunk) ==
    LET s1 == IF chunk.response /\ chunk.usage.present
              THEN [s EXCEPT !.input_tokens = chunk.usage.prompt,
                             !.output_tokens = chunk.usage.candidates]
              ELSE s
    IN Emit(s1, MessageStartEv(s1.input_tokens))

\* "On first chunk, send message_start"
first_chunk_step(s, chunk) ==
    IF s.first_chunk
    THEN LET s1 == IF chunk.response /\ chunk.usage.present
                   THEN [s EXCEPT !.input_tokens = chunk.usage.prompt,
                                  !.output_tokens = chunk.usage.candidates]
                   ELSE s
         IN [Emit(s1, MessageStartEv(s1.input_tokens)) EXCEPT !.first_chunk = FALSE]
    ELSE s

\* StreamTranslator::translate_chunk; the result's events field is the returned Vec
translate_chunk(s, chunk) ==
    LET s1 == first_chunk_step([s EXCEPT !.events = <<>>], chunk)
    IN IF chunk.response /\ chunk.candidate
       THEN LET s2 == translate_stream_parts(s1, chunk.parts)
            IN IF chunk.finish_reason # None
               THEN finish_chunk(s2, chunk.finish_reason, chunk.usage)
               ELSE s2
       ELSE s1

(***************************************************************************)
(* Upstream inputs.                                                        *)
(***************************************************************************)
Part(kind, text, thought, sig) ==
    [kind |-> kind, text |-> text, thought |-> thought, sig |-> sig]

\* Plain texts include a <think> tag cut between two parts.
PlainTexts == {"a<thi", "nk>s</think>b"}

\* One part per arm of `match part`, the text arm with and without thought,
\* the function call with and without signature.
StreamParts ==
    { Part("Text", t, FALSE, None) : t \in PlainTexts }
    \cup { Part("Text", "t", TRUE, None),
           Part("Thought", "u", FALSE, "sigT"),
           Part("InlineData", "", FALSE, None),
           Part("FunctionCall", "get_weather", FALSE, None),
           Part("FunctionCall", "get_weather", FALSE, "sig-xyz"),
           Part("FunctionResponse", "get_weather", FALSE, None) }

FinishReasons == {"STOP", "MAX_TOKENS", "SAFETY", "MALFORMED_FUNCTION_CALL"}

NoUsage == [present |-> FALSE, prompt |-> 0, candidates |-> 0]
SomeUsage == [present |-> TRUE, prompt |-> 10, candidates |-> 5]
Usages == {NoUsage, SomeUsage}

SeqsUpTo(S, n) == UNION { [1..k -> S] : k \in 0..n }

\* GenerateContentResponse values: no envelope, an envelope without candidate,
\* or a first candidate with parts and an optional finish_reason.
Chunk(response, candidate, parts, finish_reason, usage) ==
    [response |-> response, candidate |-> candidate, parts |-> parts,
     finish_reason |-> finish_reason, usage |-> usage]

NoChunk == Chunk(FALSE, FALSE, <<>>, None, NoUsage)

Chunks(maxParts) ==
    { NoChunk }
    \cup { Chunk(TRUE, FALSE, <<>>, None, u) : u \in Usages }
    \cup { Chunk(TRUE, TRUE, ps, f, u) :
             ps \in SeqsUpTo(StreamParts, maxParts),
             f \in FinishReasons \cup {None},
             u \in Usages }

\* Chunks that differ only in what decides the block structure: the envelope,
\* the parts, and whether a finish_reason is present.
BlockChunks(maxParts) ==
    { NoChunk }
    \cup { Chunk(TRUE, TRUE, ps, f, NoUsage) :
             ps \in SeqsUpTo(StreamParts, maxParts), f \in {"STOP", None} }

(***************************************************************************)
(* stream_messages_handler: the loop of the async stream.                  *)
(***************************************************************************)
streamVars == <<translator, SIGNATURE_STORE, uuid_next, issued, sse_out, handler_pc,
                chunk_count, last_call, parts_fed, pings>>
thinkVars == <<think_text, think_cuts, stripper, think_segments>>
sigVars == <<unary_result, last_request, gemini_contents>>
oauthVars == <<auto_refresh, credentials, read_guards, refresh_lock, disk, callers, calls,
              http_posts, bad_answers, expiries>>
healthVars == <<health, last_upstream>>
retryVars == <<retry>>
sseVars == <<sse>>
schemaVars == <<schema>>
requestVars == <<request>>
mappingVars == <<mapping>>
httpVars == <<http>>
detailVars == <<parsed>>
logVars == <<logged>>
cacheVars == <<cache>>
laterVars ==
    <<healthVars, retryVars, sseVars, schemaVars, requestVars, mappingVars,
      httpVars, detailVars, logVars, cacheVars>>
vars == <<streamVars, thinkVars, sigVars, oauthVars, laterVars>>

\* a loop that yields only the newest event of a batch, with its comment
yield_last_event(out, events) ==
    IF events = <<>> THEN out
    ELSE Append(Append(out, events[Len(events)]), KeepAliveComment)

\* `for event in events.iter()`: each event, then the keepalive comment
RECURSIVE yield_events(_, _)
yield_events(out, events) ==
    IF events = <<>> THEN out
    ELSE yield_events(Append(Append(out, Head(events)), KeepAliveComment), Tail(events))

NoCall == [any |-> FALSE, chunk |-> NoChunk, events |-> <<>>]

InitStream ==
    /\ translator = NewTranslator
    /\ SIGNATURE_STORE = EmptyStore
    /\ uuid_next = 0
    /\ issued = <<>>
    /\ sse_out = <<>>
    /\ handler_pc = "streaming"
    /\ chunk_count = 0
    /\ last_call = NoCall
    /\ parts_fed = 0
    /\ pings = 0

InitThinkIdle ==
    /\ think_text = ""
    /\ think_cuts = <<>>
    /\ stripper = [thinking_buffer |-> "", in_thinking |-> FALSE]
    /\ think_segments = <<>>

NoResult == [any |-> FALSE]

InitSigIdle ==
    /\ unary_result = NoResult
    /\ last_request = <<>>
    /\ gemini_contents = NoResult

MaxCallers == 2    \* concurrent get_token callers

Callers == 1..MaxCallers

NoHolder == 0

IdleCaller ==
    [pc |-> "idle", seen |-> -1, attempt |-> 0,
     new_creds |-> [access_token |-> -1, expired |-> FALSE],
     result |-> [kind |-> None, token |-> -1, error |-> None, via |-> None,
                 current |-> -1]]

\* OAuthManager::new: the credentials loaded from the file, no lock held
InitOAuthIdle ==
    /\ auto_refresh = TRUE
    /\ credentials = [access_token |-> 0, expired |-> FALSE]
    /\ read_guards = {}
    /\ refresh_lock = NoHolder
    /\ disk = 0
    /\ callers = [c \in Callers |-> IdleCaller]
    /\ calls = 0
    /\ http_posts = 0
    /\ bad_answers = 0
    /\ expiries = IF credentials.expired THEN 1 ELSE 0

NoUpstreamCall ==
    [any |-> FALSE, model |-> None, streaming |-> FALSE, status |-> 0, daily |-> FALSE,
     before |-> None]

\* ModelAvailabilityService::new: no record for any model
InitHealthIdle ==
    /\ health = [m \in {} |-> None]
    /\ last_upstream = NoUpstreamCall

\* no with_retry run has started
InitRetryIdle ==
    retry = [pc |-> "idle", attempt |-> 0, last |-> 0, prev |-> 0,
             current_interval |-> 0, elapsed |-> 0, delay |-> 0,
             waited |-> 0, hints |-> 0, result |-> "None"]

\* no upstream stream is being parsed
NoPick == [lf |-> -1, crlf |-> -1, event_end |-> -1]
InitSseIdle ==
    sse = [pc |-> "idle", source |-> <<>>, rest |-> "", buffer |-> "",
           events |-> <<>>, split_char |-> FALSE, failed |-> FALSE,
           both |-> NoPick]

\* a tool whose input_schema is {} and has not been translated
InitSchemaIdle ==
    schema = [value |-> [t |-> "obj", v |-> <<>>], steps |-> 0, done |-> FALSE,
              once |-> [t |-> "null", v |-> 0], twice |-> [t |-> "null", v |-> 0]]

\* a request without messages that has not been translated
InitRequestIdle ==
    request = [messages |-> <<>>, steps |-> 0, done |-> FALSE,
               tools |-> [some |-> FALSE, list |-> <<>>],
               by_name |-> FALSE, result |-> [ok |-> FALSE]]

\* map_model has not been called
InitMappingIdle == mapping = [any |-> FALSE, model |-> "", ok |-> FALSE, gemini |-> ""]

\* no request served yet
InitHttpIdle == http = [any |-> FALSE]

\* parse_retry_delay not called yet
InitDetailIdle == parsed = [any |-> FALSE]

\* sanitize not called yet
InitLogIdle == logged = [any |-> FALSE]

\* CacheManager::new: no entry
InitCacheIdle == cache = [any |-> FALSE, entries |-> <<>>]

InitLaterIdle ==
    /\ InitHealthIdle /\ InitRetryIdle /\ InitSseIdle /\ InitSchemaIdle
    /\ InitRequestIdle /\ InitMappingIdle /\ InitHttpIdle /\ InitDetailIdle
    /\ InitLogIdle /\ InitCacheIdle

Init == InitStream /\ InitThinkIdle /\ InitSigIdle /\ InitOAuthIdle /\ InitLaterIdle

\* gemini_stream.next() yields Some(Ok(chunk)): translate it and yield its events
HandleChunk(chunk) ==
    LET s == translate_chunk(
               translator @@ [events |-> <<>>, store |-> SIGNATURE_STORE,
                              uuid |-> uuid_next, issued |-> issued],
               chunk)
    IN /\ handler_pc = "streaming"
       /\ chunk_count < MaxChunks
       /\ translator' = [f \in TranslatorFields |-> s[f]]
       /\ SIGNATURE_STORE' = s.store
       /\ uuid_next' = s.uuid
       /\ issued' = s.issued
       /\ sse_out' = yield_events(sse_out, s.events)
       /\ last_call' = [any |-> TRUE, chunk |-> chunk, events |-> s.events]
       /\ parts_fed' = parts_fed + Len(chunk.parts)
       /\ chunk_count' = chunk_count + 1
       /\ UNCHANGED <<handler_pc, pings, thinkVars, sigVars, oauthVars, laterVars>>

UpstreamChunk == \E chunk \in Chunks(MaxParts - parts_fed) : HandleChunk(chunk)

UpstreamBlockChunk == \E chunk \in BlockChunks(MaxParts - parts_fed) : HandleChunk(chunk)

\* gemini_stream.next() yields Some(Err(e)): an api_error event, then break
UpstreamError ==
    /\ handler_pc = "streaming"
    /\ sse_out' = Append(sse_out, ErrorEv("api_error"))
    /\ handler_pc' = "done"
    /\ chunk_count' = chunk_count + 1
    /\ UNCHANGED <<translator, SIGNATURE_STORE, uuid_next, issued, last_call,
                   parts_fed, pings, thinkVars, sigVars, oauthVars, laterVars>>

\* gemini_stream.next() yields None: break
UpstreamClosed ==
    /\ handler_pc = "streaming"
    /\ handler_pc' = "done"
    /\ UNCHANGED <<translator, SIGNATURE_STORE, uuid_next, issued, sse_out,
                   chunk_count, last_call, parts_fed, pings, thinkVars, sigVars, oauthVars, laterVars>>

\* the 15 s sleep arm of select!: a ping event
KeepAlivePing ==
    /\ handler_pc = "streaming"
    /\ pings < MaxPings
    /\ sse_out' = Append(sse_out, PingEv)
    /\ pings' = pings + 1
    /\ UNCHANGED <<translator, SIGNATURE_STORE, uuid_next, issued, handler_pc,
                   chunk_count, last_call, parts_fed, thinkVars, sigVars, oauthVars, laterVars>>

\* One streaming request, every kind of chunk.
Next == UpstreamChunk \/ UpstreamError \/ UpstreamClosed \/ KeepAlivePing

Spec == Init /\ [][Next]_vars

\* One streaming request, the chunks that decide the block structure.
NextBlocks == UpstreamBlockChunk \/ UpstreamError \/ UpstreamClosed

SpecBlocks == Init /\ [][NextBlocks]_vars

(***************************************************************************)
(* Properties of the event sequence.                                       *)
(***************************************************************************)

\* What the client received, without keepalive comments and pings.
ClientEvents == SelectSeq(sse_out, LAMBDA e : e.type \notin {"keepalive", "ping"})

Positions(ev) == 1..Len(ev)

Count(ev, e) == Cardinality({ p \in Positions(ev) : ev[p] = e })

\* C1: once the handler's loop has ended, if the translator emitted any event
\* then the first event the client received is MessageStart and the last is
\* MessageStop or Error.
C1_FirstAndLastEvent ==
    (handler_pc = "done" /\ ~translator.first_chunk) =>
        /\ ClientEvents[1].type = "message_start"
        /\ ClientEvents[Len(ClientEvents)].type \in {"message_stop", "error"}

\* Position of the first event after p that has the next index or is a
\* MessageDelta, or 0.
NextBlockOrDelta(ev, p) ==
    LET Q == { q \in Positions(ev) :
                 /\ q > p
                 /\ \/ ev[q].type = "message_delta"
                    \/ ev[q].index = ev[p].index + 1 }
    IN IF Q = {} THEN 0 ELSE Min(Q)

\* C2: every ContentBlockStart(i) is followed by exactly one ContentBlockStop(i)
\* before the first later event that has index i+1 or is a MessageDelta.
C2_OneStopBeforeNextBlock ==
    LET ev == ClientEvents
    IN \A p \in Positions(ev) :
         (ev[p].type = "content_block_start" /\ NextBlockOrDelta(ev, p) # 0) =>
            Cardinality({ r \in (p + 1)..(NextBlockOrDelta(ev, p) - 1) :
                            ev[r] = ContentBlockStopEv(ev[p].index) }) = 1

\* A text block was closed by a block transition, a later block was followed by
\* a MessageDelta, and the stream went on after a MessageStop.
C2_Witness ==
    LET ev == ClientEvents
    IN /\ \E p \in Positions(ev) :
            ev[p].type = "content_block_start" /\ ev[p].index = 0 /\ ev[p].kind = "Text"
       /\ \E p, q, r \in Positions(ev) :
            /\ p < q /\ q < r
            /\ ev[p].type = "content_block_start" /\ ev[p].index = 1
            /\ ev[q].type = "message_stop"
            /\ ev[r].type = "content_block_stop"

StopCount(out) ==
    Cardinality({ p \in Positions(out) : out[p].type = "content_block_stop" })

\* C3: current_block_index never decreases, and each step raises it by the
\* number of ContentBlockStop events the step emitted (by 1 for every close,
\* the close on finish_reason included).
C3_IndexCountsStops ==
    [][translator'.current_block_index - translator.current_block_index
         = StopCount(sse_out') - StopCount(sse_out)]_vars

\* C4: the events of a ToolUse block are exactly ContentBlockStart,
\* InputJsonDelta, ContentBlockStop, adjacent and in that order, and no other
\* event of the stream carries the block's index.
C4_ToolUseAtomic ==
    LET ev == ClientEvents
    IN \A p \in Positions(ev) :
         (ev[p].type = "content_block_start" /\ ev[p].kind = "ToolUse") =>
            /\ p + 2 <= Len(ev)
            /\ ev[p + 1] = ContentBlockDeltaEv(ev[p].index, "input_json_delta", "{}")
            /\ ev[p + 2] = ContentBlockStopEv(ev[p].index)
            /\ \A q \in Positions(ev) \ {p, p + 1, p + 2} : ev[q].index # ev[p].index

\* A ToolUse block was emitted while another block was open, and one after a
\* finish_reason had closed a block.
C4_Witness ==
    LET ev == ClientEvents
    IN \E p, q \in Positions(ev) :
         /\ p < q
         /\ ev[p].type = "message_delta"
         /\ ev[q].type = "content_block_start" /\ ev[q].kind = "ToolUse"
         /\ ev[q].index >= 1
         /\ ev[q - 1].type = "content_block_stop"

\* The stop_reason of the unary table with the tool-use override.
ExpectedStopReason(finish_reason, tool_use_emitted) ==
    IF map_stop_reason(finish_reason) = "end_turn" /\ tool_use_emitted
    THEN "tool_use"
    ELSE map_stop_reason(finish_reason)

ToolUseEmitted ==
    \E p \in Positions(ClientEvents) :
        ClientEvents[p].type = "content_block_start" /\ ClientEvents[p].kind = "ToolUse"

\* C6: the MessageDelta emitted for a chunk with finish_reason carries the
\* stop_reason of the unary table, with end_turn replaced by tool_use when a
\* ToolUse block was emitted in the stream.
C6_StreamStopReason ==
    (last_call.any /\ last_call.chunk.candidate /\ last_call.chunk.finish_reason # None) =>
        \A p \in Positions(last_call.events) :
            last_call.events[p].type = "message_delta" =>
                last_call.events[p].kind =
                    ExpectedStopReason(last_call.chunk.finish_reason, ToolUseEmitted)

\* C7: a chunk whose finish_reason is MALFORMED_FUNCTION_CALL yields an Error
\* event and neither MessageDelta nor MessageStop.
C7_MalformedFunctionCallIsError ==
    (last_call.any /\ last_call.chunk.candidate
        /\ last_call.chunk.finish_reason = "MALFORMED_FUNCTION_CALL") =>
        /\ \E p \in Positions(last_call.events) : last_call.events[p].type = "error"
        /\ \A p \in Positions(last_call.events) :
             last_call.events[p].type \notin {"message_delta", "message_stop"}

(***************************************************************************)
(* The <think> extractor on its own: one text, cut into chunks at any      *)
(* offsets, fed to process_text_chunk one chunk at a time.                 *)
(***************************************************************************)
\* The pieces the texts are built from: a character, the two tags, and a
\* character that begins both tags.
Fragments == {"a", "<think>", "</think>", "<"}

RECURSIVE Concat(_)
Concat(ss) == IF ss = <<>> THEN "" ELSE Head(ss) \o Concat(Tail(ss))

Texts == { Concat(fs) : fs \in SeqsUpTo(Fragments, MaxFragments) }

InitThink ==
    /\ InitStream
    /\ InitSigIdle
    /\ InitOAuthIdle
    /\ InitLaterIdle
    /\ think_text \in Texts
    /\ think_cuts = <<>>
    /\ stripper = [thinking_buffer |-> "", in_thinking |-> FALSE]
    /\ think_segments = <<>>

Fed == IF think_cuts = <<>> THEN 0 ELSE think_cuts[Len(think_cuts)]

\* translator.process_text_chunk(chunk) for the next chunk of the text
FeedText ==
    /\ Len(think_cuts) < MaxFeeds
    /\ \E cut \in (Fed + 1)..Len(think_text) :
         LET r == process_text_chunk(stripper.thinking_buffer, stripper.in_thinking,
                                     SubSeq(think_text, Fed + 1, cut))
         IN /\ stripper' = [thinking_buffer |-> r.thinking_buffer,
                            in_thinking |-> r.in_thinking]
            /\ think_segments' = think_segments \o r.segments
            /\ think_cuts' = Append(think_cuts, cut)
    /\ UNCHANGED <<think_text, streamVars, sigVars, oauthVars, laterVars>>

NextThink == FeedText

SpecThink == InitThink /\ [][NextThink]_vars

\* The same text fed to a fresh extractor in one call.
FedAtOnce == process_text_chunk("", FALSE, think_text)

\* Adjacent segments of one kind joined into one.
RECURSIVE Coalesce(_)
Coalesce(segs) ==
    IF Len(segs) < 2 THEN segs
    ELSE LET rest == Coalesce(Tail(segs))
         IN IF Head(segs).kind = Head(rest).kind
            THEN <<[kind |-> Head(segs).kind,
                    content |-> Head(segs).content \o Head(rest).content]>> \o Tail(rest)
            ELSE <<Head(segs)>> \o rest

\* C5 as stated: once the whole text has been fed in chunks, the segments
\* returned are the segments returned for the text fed at once.
C5_SameSegments ==
    Fed = Len(think_text) => think_segments = FedAtOnce.segments

\* C5 amended: for a text within the extractor's 10 MiB limit, once the whole
\* text has been fed in chunks, the segments returned equal those of the text
\* fed at once after adjacent segments of one kind are joined, and the
\* extractor is left with the same buffer and the same in_thinking.
C5_SameSegmentsJoined ==
    (Fed = Len(think_text) /\ Len(think_text) <= BufferLimit) =>
        /\ Coalesce(think_segments) = Coalesce(FedAtOnce.segments)
        /\ stripper.thinking_buffer = FedAtOnce.thinking_buffer
        /\ stripper.in_thinking = FedAtOnce.in_thinking

\* A text with both tags was fed whole in two chunks, the cut falling inside
\* the opening tag, and a Thinking segment came out.
C5_Witness ==
    /\ Fed = Len(think_text)
    /\ Len(think_cuts) = 2
    /\ Find(think_text, OpenTag) # -1
    /\ think_cuts[1] > Find(think_text, OpenTag)
    /\ think_cuts[1] < Find(think_text, OpenTag) + Len(OpenTag)
    /\ \E i \in 1..Len(think_segments) : think_segments[i].kind = "Thinking"

(***************************************************************************)
(* The unary response path (translation::response) and the translation of  *)
(* the conversation history (translation::request, translation::tools).    *)
(* Both share SIGNATURE_STORE with the streaming path.                     *)
(***************************************************************************)
MaxIds == 2        \* uuids drawn before a further unary response is taken
MaxUnaryParts == 1 \* parts of a unary response
MaxMessages == 1   \* messages of a request
MaxBlocks == 1     \* content blocks of a message

SkipValidator == "skip_thought_signature_validator"

\* THINKING_REGEX.replace_all(text, ""): (?s)<think>.*?</think>, leftmost and
\* shortest match first
RECURSIVE strip_think(_)
strip_think(text) ==
    LET i == Find(text, OpenTag)
        after == StrFrom(text, i + Len(OpenTag))
        j == IF i = -1 THEN -1 ELSE Find(after, CloseTag)
    IN IF i = -1 \/ j = -1 THEN text
       ELSE StrTo(text, i) \o strip_think(StrFrom(after, j + Len(CloseTag)))

\* text.trim().is_empty()
IsBlank(text) == \A i \in 1..Len(text) : SubSeq(text, i, i) \in {" ", "\n", "\t"}

\* strip_thinking_artifacts: Text parts are cleaned and dropped when blank
RECURSIVE strip_thinking_artifacts(_)
strip_thinking_artifacts(parts) ==
    IF parts = <<>> THEN <<>>
    ELSE LET part == Head(parts)
             rest == strip_thinking_artifacts(Tail(parts))
             cleaned == strip_think(part.text)
         IN IF part.kind = "Text"
            THEN IF IsBlank(cleaned) THEN rest
                 ELSE <<Part("Text", cleaned, FALSE, None)>> \o rest
            ELSE <<part>> \o rest

\* models::anthropic::ContentBlock: text is the text of a Text block and the
\* tool name of a ToolUse block
ContentBlock(type, id, text) == [type |-> type, id |-> id, text |-> text]

\* translate_part, on r = [ok, content, uuid, issued]
translate_part(r, part) ==
    CASE part.kind = "Text" ->
           [r EXCEPT !.content = Append(@, ContentBlock("text", None, part.text))]
      [] part.kind = "InlineData" ->
           [r EXCEPT !.content = Append(@, ContentBlock("image", None, ""))]
      [] part.kind = "FunctionCall" ->
           [r EXCEPT !.content = Append(@, ContentBlock("tool_use", ToolId(r.uuid + 1),
                                                        part.text)),
                     !.uuid = @ + 1,
                     !.issued = Append(@, [id |-> ToolId(r.uuid + 1), sig |-> part.sig,
                                           path |-> "unary"])]
      [] OTHER -> [r EXCEPT !.ok = FALSE]

\* translate_parts: collect() stops at the first Err
RECURSIVE translate_parts(_, _)
translate_parts(r, parts) ==
    IF parts = <<>> \/ ~r.ok THEN r
    ELSE translate_parts(translate_part(r, Head(parts)), Tail(parts))

\* translate_response: the MessagesResponse, or a Translation error
translate_response(uuid, history, gemini_resp) ==
    LET r == translate_parts([ok |-> TRUE, content |-> <<>>, uuid |-> uuid,
                              issued |-> history],
                             strip_thinking_artifacts(gemini_resp.parts))
    IN IF ~(gemini_resp.response /\ gemini_resp.candidate)
       THEN [any |-> TRUE, ok |-> FALSE, error |-> "Translation",
             uuid |-> uuid, issued |-> history]
       ELSE IF ~r.ok
       THEN [any |-> TRUE, ok |-> FALSE, error |-> "Translation",
             uuid |-> r.uuid, issued |-> r.issued]
       ELSE [any |-> TRUE, ok |-> TRUE, id |-> "msg_" \o ToString(r.uuid + 1),
             content |-> r.content, stop_reason |-> None,
             input_tokens |-> gemini_resp.usage.prompt,
             output_tokens |-> gemini_resp.usage.candidates,
             uuid |-> r.uuid + 1, issued |-> r.issued]

\* tools::translate_tool_use
translate_tool_use(id, name) == Part("FunctionCall", name, FALSE, SkipValidator)

\* translate_content_block, for Text, Thinking and ToolUse blocks
translate_content_block(block) ==
    CASE block.type = "text" -> Part("Text", block.text, FALSE, None)
      [] block.type = "thinking" -> Part("Text", "", FALSE, None)
      [] block.type = "tool_use" -> translate_tool_use(block.id, block.text)

\* Mutant: no part is filtered out.
KeepEveryPart(part) == TRUE

\* `.filter(|part| !matches!(part, Text { text, .. } if text.is_empty()))`
NotEmptyText(part) == ~(part.kind = "Text" /\ part.text = "")

\* translate_message_content
translate_message_content(content) ==
    LET parts == IF content.is_text
                 THEN <<Part("Text", content.text, FALSE, None)>>
                 ELSE [i \in 1..Len(content.blocks) |->
                          translate_content_block(content.blocks[i])]
        filtered_parts == SelectSeq(parts, NotEmptyText)
    IN IF filtered_parts = <<>> THEN <<Part("Text", " ", FALSE, None)>>
       ELSE filtered_parts

\* translate_messages: the contents, or InvalidRequest for an unknown role
translate_messages(messages) ==
    IF \E i \in 1..Len(messages) : messages[i].role \notin {"user", "assistant"}
    THEN [any |-> TRUE, ok |-> FALSE, error |-> "InvalidRequest"]
    ELSE [any |-> TRUE, ok |-> TRUE,
          contents |-> [i \in 1..Len(messages) |->
                          [role |-> IF messages[i].role = "user" THEN "user" ELSE "model",
                           parts |-> translate_message_content(messages[i].content)]]]

\* Upstream inputs of the signature paths.
SigParts ==
    { Part("Text", "a", FALSE, None),
      Part("FunctionCall", "get_weather", FALSE, None),
      Part("FunctionCall", "get_weather", FALSE, "sig-xyz") }

SigChunks(maxParts) ==
    { Chunk(TRUE, TRUE, ps, f, NoUsage) :
        ps \in SeqsUpTo(SigParts, maxParts), f \in {"STOP", None} }

UnaryParts ==
    SigParts \cup { Part("Text", "<think>x</think>", FALSE, None),
                    Part("FunctionResponse", "get_weather", FALSE, None) }

UnaryResponses ==
    { NoChunk, Chunk(TRUE, FALSE, <<>>, None, NoUsage) }
    \cup { Chunk(TRUE, TRUE, ps, "STOP", SomeUsage) :
             ps \in SeqsUpTo(UnaryParts, MaxUnaryParts) }

\* Client inputs: the ids a client can send back are those it was given.
KnownIds == { issued[i].id : i \in 1..Len(issued) } \cup {"toolu_0"}

RequestBlocks ==
    { ContentBlock("text", None, "hi"), ContentBlock("thinking", None, "") }
    \cup { ContentBlock("tool_use", id, "get_weather") : id \in KnownIds }

MessageContents ==
    { [is_text |-> TRUE, text |-> "hi", blocks |-> <<>>] }
    \cup { [is_text |-> FALSE, text |-> "", blocks |-> bs] :
             bs \in SeqsUpTo(RequestBlocks, MaxBlocks) }

Requests ==
    SeqsUpTo({ [role |-> r, content |-> c] :
                 r \in {"user", "assistant", "tool"}, c \in MessageContents },
             MaxMessages)

UpstreamSigChunk == \E chunk \in SigChunks(MaxParts - parts_fed) : HandleChunk(chunk)

\* non_stream_messages_handler: the upstream response is translated
UnaryResponse ==
    /\ uuid_next < MaxIds
    /\ \E gemini_resp \in UnaryResponses :
         LET r == translate_response(uuid_next, issued, gemini_resp)
         IN /\ unary_result' = [f \in DOMAIN r \ {"uuid", "issued"} |-> r[f]]
                                   @@ [finish_reason |-> gemini_resp.finish_reason]
            /\ uuid_next' = r.uuid
            /\ issued' = r.issued
    /\ UNCHANGED <<translator, SIGNATURE_STORE, sse_out, handler_pc, chunk_count,
                   last_call, parts_fed, pings, last_request, gemini_contents,
                   thinkVars, oauthVars, laterVars>>

\* translate_request, step 4: the conversation history is translated
TranslateMessages ==
    /\ \E messages \in Requests :
         /\ last_request' = messages
         /\ gemini_contents' = translate_messages(messages)
    /\ UNCHANGED <<streamVars, unary_result, thinkVars, oauthVars, laterVars>>

\* A streaming request, unary responses and request translations, sharing
\* the signature store.
NextSig == UpstreamSigChunk \/ UpstreamClosed \/ UnaryResponse \/ TranslateMessages

SpecSig == Init /\ [][NextSig]_vars

\* C8: every FunctionCall part received with a thought signature, on the
\* streaming path or the unary path, has the id minted for it mapped to that
\* signature in the signature store.
C8_SignatureStored ==
    \A i \in 1..Len(issued) :
        issued[i].sig # None =>
            get_signature(SIGNATURE_STORE, issued[i].id) = issued[i].sig

IsToolUse(block) == block.type = "tool_use"
IsFunctionCall(part) == part.kind = "FunctionCall"

\* What C9 expects on the FunctionCall part of a ToolUse block: the stored
\* signature, the sentinel when the store has none for the id.
ExpectedSignature(block) ==
    IF get_signature(SIGNATURE_STORE, block.id) # None
    THEN get_signature(SIGNATURE_STORE, block.id)
    ELSE SkipValidator

\* C9: in a translated request, the FunctionCall part of each ToolUse block
\* carries the signature stored for the block's id, and the sentinel only
\* when the store has no entry for it.  (An entry, once stored for an id, is
\* never changed, so the store may be read after the translation.)
C9_StoredSignatureUsed ==
    (gemini_contents.any /\ gemini_contents.ok) =>
        \A m \in 1..Len(last_request) :
            ~last_request[m].content.is_text =>
                LET tool_uses == SelectSeq(last_request[m].content.blocks, IsToolUse)
                    function_calls == SelectSeq(gemini_contents.contents[m].parts, IsFunctionCall)
                IN /\ Len(function_calls) = Len(tool_uses)
                   /\ \A k \in 1..Len(function_calls) :
                        function_calls[k].sig = ExpectedSignature(tool_uses[k])

(***************************************************************************)
(* The OAuth token manager (oauth::manager): concurrent get_token callers  *)
(* of one OAuthManager.  A caller is at one of: idle, fast_path, lock      *)
(* (waiting for refresh_lock), recheck, refresh_token, attempt (about to   *)
(* send, or sleeping before the next attempt), http (request in flight),   *)
(* write, save, save_write, done.  access_token is the number of refreshes *)
(* that led to the token; time is monotonic, so expired credentials stay   *)
(* expired until they are replaced.                                        *)
(***************************************************************************)
MaxCalls == 2      \* get_token calls in total
MaxRefreshes == 1  \* times the token in use can run out

MAX_ATTEMPTS == 5

\* Statuses the token endpoint answers with; a network error is reported
\* by request_logic as status 500.
Statuses == {400, 429, 500, 503, 529}

is_retryable_always(status) == TRUE

\* utils::retry::is_retryable
is_retryable(status) == status \in {429, 500, 502, 503, 504}

\* with_retry: another attempt follows a failure
retry_again(status, attempt) == is_retryable(status) /\ ~(attempt >= MAX_ATTEMPTS)

\* refresh_token's map_err
refresh_error(status) ==
    CASE status = 429 -> "TooManyRequests"
      [] status = 529 -> "Overloaded"
      [] status \in {503, 504} -> "ServiceUnavailable"
      [] OTHER -> "OAuthRefresh"

\* Mutant: the credentials are taken as expired whatever their expiry date.
is_expired_always(creds) == TRUE

\* OAuthCredentials::is_expired(refresh_buffer_seconds)
is_expired(creds) == creds.expired

\* Mutant: the refresh lock is granted whether or not it is held.
MutexAlwaysFree(holder) == TRUE

\* tokio::sync::Mutex::lock completes only while nobody holds the mutex
MutexFree(holder) == holder = NoHolder

\* Mutant: the guard of refresh_lock outlives a get_token that returns Err.
keep_guard(holder) == holder

\* get_token returns Err(e) out of the match: _guard goes out of scope
drop_guard(holder) == NoHolder

Result(kind, token, error, via) ==
    [kind |-> kind, token |-> token, error |-> error, via |-> via,
     current |-> credentials.access_token]

otherVars == <<streamVars, thinkVars, sigVars, laterVars>>
oauthHistory == <<http_posts, bad_answers, expiries>>

\* a caller enters get_token
Call(c) ==
    /\ callers[c].pc \in {"idle", "done"}
    /\ calls < MaxCalls
    /\ callers' = [callers EXCEPT ![c] = [IdleCaller EXCEPT !.pc = "fast_path"]]
    /\ calls' = calls + 1
    /\ UNCHANGED <<auto_refresh, credentials, read_guards, refresh_lock, disk, otherVars, oauthHistory>>

\* the fast path and the auto_refresh test
FastPath(c) ==
    /\ callers[c].pc = "fast_path"
    /\ callers' =
         IF ~is_expired(credentials)
         THEN [callers EXCEPT ![c].pc = "done",
                              ![c].result = Result("Ok", credentials.access_token,
                                                   None, "fast_path")]
         ELSE IF ~auto_refresh
         THEN [callers EXCEPT ![c].pc = "done",
                              ![c].seen = credentials.access_token,
                              ![c].result = Result("Err", -1, "TokenExpired", "fast_path")]
         ELSE [callers EXCEPT ![c].pc = "lock",
                              ![c].seen = credentials.access_token]
    /\ UNCHANGED <<auto_refresh, credentials, read_guards, refresh_lock, disk, calls,
                   otherVars, oauthHistory>>

\* self.refresh_lock.lock().await completes
AcquireRefreshLock(c) ==
    /\ callers[c].pc = "lock"
    /\ MutexFree(refresh_lock)
    /\ refresh_lock' = c
    /\ callers' = [callers EXCEPT ![c].pc = "recheck"]
    /\ UNCHANGED <<auto_refresh, credentials, read_guards, disk, calls, otherVars, oauthHistory>>

\* the re-check under the mutex; returning drops the guard
Recheck(c) ==
    /\ callers[c].pc = "recheck"
    /\ IF ~is_expired(credentials)
       THEN /\ callers' = [callers EXCEPT ![c].pc = "done",
                                          ![c].result = Result("Ok", credentials.access_token,
                                                               None, "recheck")]
            /\ refresh_lock' = NoHolder
       ELSE /\ callers' = [callers EXCEPT ![c].pc = "refresh_token"]
            /\ UNCHANGED refresh_lock
    /\ UNCHANGED <<auto_refresh, credentials, read_guards, disk, calls, otherVars, oauthHistory>>

\* refresh_token: `let creds = self.credentials.read().await`, held to the end
BeginRefresh(c) ==
    /\ callers[c].pc = "refresh_token"
    /\ read_guards' = read_guards \cup {c}
    /\ callers' = [callers EXCEPT ![c].pc = "attempt", ![c].attempt = 0]
    /\ UNCHANGED <<auto_refresh, credentials, refresh_lock, disk, calls, otherVars, oauthHistory>>

\* with_retry: `attempt += 1; operation().await`, the POST is sent
SendRefresh(c) ==
    /\ callers[c].pc = "attempt"
    /\ callers' = [callers EXCEPT ![c].pc = "http", ![c].attempt = @ + 1]
    /\ http_posts' = http_posts + 1
    /\ UNCHANGED <<auto_refresh, credentials, read_guards, refresh_lock, disk, calls,
                   otherVars, bad_answers, expiries>>

\* What the token endpoint can answer: a token (whose lifetime may already be
\* within the refresh buffer), a 2xx body without access_token, or a status.
RefreshOutcomes ==
    { [kind |-> "token", expired |-> e, status |-> 200] :
        e \in {FALSE} \cup { x \in {TRUE} : credentials.access_token + 1 < MaxRefreshes } }
    \cup { [kind |-> "malformed", expired |-> FALSE, status |-> 200] }
    \cup { [kind |-> "status", expired |-> FALSE, status |-> st] : st \in Statuses }

\* the POST completes: with_retry and the rest of refresh_token, up to the
\* return into get_token (an Err returns from get_token and drops the guard)
RefreshResponseOf(c, outcomes) ==
    /\ callers[c].pc = "http"
    /\ \E outcome \in outcomes :
       /\ bad_answers' = IF outcome.kind = "token" /\ ~outcome.expired
                         THEN bad_answers ELSE bad_answers + 1
       /\ CASE outcome.kind = "token" ->
                /\ callers' = [callers EXCEPT
                      ![c].pc = "write",
                      ![c].new_creds = [access_token |-> credentials.access_token + 1,
                                        expired |-> outcome.expired]]
                /\ read_guards' = read_guards \ {c}
                /\ UNCHANGED refresh_lock
           [] outcome.kind = "malformed" ->
                /\ callers' = [callers EXCEPT
                      ![c].pc = "done",
                      ![c].result = Result("Err", -1, "OAuthRefresh", "refresh")]
                /\ read_guards' = read_guards \ {c}
                /\ refresh_lock' = drop_guard(refresh_lock)
           [] outcome.kind = "status" ->
                IF retry_again(outcome.status, callers[c].attempt)
                THEN /\ callers' = [callers EXCEPT ![c].pc = "attempt"]
                     /\ UNCHANGED <<read_guards, refresh_lock>>
                ELSE /\ callers' = [callers EXCEPT
                           ![c].pc = "done",
                           ![c].result = Result("Err", -1, refresh_error(outcome.status),
                                                "refresh")]
                     /\ read_guards' = read_guards \ {c}
                     /\ refresh_lock' = drop_guard(refresh_lock)
    /\ UNCHANGED <<auto_refresh, credentials, disk, calls, otherVars, http_posts, expiries>>

\* the POST completes with any answer of the token endpoint
RefreshResponse(c) == RefreshResponseOf(c, RefreshOutcomes)

\* `*creds = new_creds.clone()` under the write guard
WriteCredentials(c) ==
    /\ callers[c].pc = "write"
    /\ read_guards = {}
    /\ credentials' = callers[c].new_creds
    /\ callers' = [callers EXCEPT ![c].pc = "save"]
    /\ UNCHANGED <<auto_refresh, read_guards, refresh_lock, disk, calls, otherVars, oauthHistory>>

\* get_token's return after save_credentials, whose error is only logged:
\* Ok(new access token), the guard of refresh_lock dropped
ReturnRefreshed(c) ==
    /\ callers' = [callers EXCEPT
          ![c].pc = "done",
          ![c].result = Result("Ok", callers[c].new_creds.access_token, None, "refresh")]
    /\ refresh_lock' = NoHolder

\* save_credentials, fs::File::create: the file is truncated, or the call
\* fails and the file is left as it was
SaveCreate(c) ==
    /\ callers[c].pc = "save"
    /\ \/ /\ disk' = -1
          /\ callers' = [callers EXCEPT ![c].pc = "save_write"]
          /\ UNCHANGED refresh_lock
       \/ /\ disk' = disk
          /\ ReturnRefreshed(c)
    /\ UNCHANGED <<auto_refresh, credentials, read_guards, calls, otherVars, oauthHistory>>

\* save_credentials, write_all and set_permissions: the new credentials are in
\* the file (whether or not set_permissions then fails), or write_all fails
SaveWrite(c) ==
    /\ callers[c].pc = "save_write"
    /\ disk' \in {callers[c].new_creds.access_token, -1}
    /\ ReturnRefreshed(c)
    /\ UNCHANGED <<auto_refresh, credentials, read_guards, calls, otherVars, oauthHistory>>

\* save_credentials and the return of the refreshed token
SaveCredentials(c) == SaveCreate(c) \/ SaveWrite(c)

\* time passes: the token in use comes within refresh_buffer_seconds of its expiry
TokenExpires ==
    /\ ~credentials.expired
    /\ credentials.access_token < MaxRefreshes
    /\ credentials' = [credentials EXCEPT !.expired = TRUE]
    /\ expiries' = expiries + 1
    /\ UNCHANGED <<auto_refresh, read_guards, refresh_lock, disk, callers, calls, otherVars,
                   http_posts, bad_answers>>

InitOAuth ==
    /\ InitStream /\ InitThinkIdle /\ InitSigIdle /\ InitLaterIdle
    /\ auto_refresh \in BOOLEAN
    /\ credentials \in { [access_token |-> 0, expired |-> e] : e \in BOOLEAN }
    /\ read_guards = {}
    /\ refresh_lock = NoHolder
    /\ disk = 0
    /\ callers = [c \in Callers |-> IdleCaller]
    /\ calls = 0
    /\ http_posts = 0
    /\ bad_answers = 0
    /\ expiries = IF credentials.expired THEN 1 ELSE 0

NextOAuth ==
    \/ \E c \in Callers :
         \/ Call(c) \/ FastPath(c) \/ AcquireRefreshLock(c) \/ Recheck(c)
         \/ BeginRefresh(c) \/ SendRefresh(c) \/ RefreshResponse(c)
         \/ WriteCredentials(c) \/ SaveCredentials(c)
    \/ TokenExpires

SpecOAuth == InitOAuth /\ [][NextOAuth]_vars

\* a caller that has not called yet enters get_token
CallOnce(c) == callers[c].pc = "idle" /\ Call(c)

\* Answers of the token endpoint that lead through each way out of
\* with_retry: a fresh token, a status that is retried, a status that is not
ProgressOutcomes ==
    { o \in RefreshOutcomes :
        (o.kind = "token" /\ ~o.expired) \/ o.status \in {400, 500} }

\* What a get_token call does by itself once it has been entered
CallerStep(c) ==
    \/ FastPath(c) \/ AcquireRefreshLock(c) \/ Recheck(c) \/ BeginRefresh(c)
    \/ SendRefresh(c) \/ RefreshResponseOf(c, ProgressOutcomes)
    \/ WriteCredentials(c) \/ SaveCredentials(c)

NextOAuthFair ==
    \/ \E c \in Callers : CallOnce(c) \/ CallerStep(c)
    \/ TokenExpires

\* The runtime polls every task that can make progress, every POST to the
\* token endpoint completes (reqwest answers or fails), every backoff sleep
\* ends, and a released tokio::sync::Mutex is handed to a waiter: weak
\* fairness of each caller's steps.  Nobody is obliged to call get_token,
\* and the token need not expire.
SpecOAuthFair ==
    /\ InitOAuth /\ [][NextOAuthFair]_vars
    /\ \A c \in Callers : WF_vars(CallerStep(c))

InFlight == { c \in Callers : callers[c].pc = "http" }

HoldsRefreshLock(c) ==
    /\ refresh_lock = c
    /\ callers[c].pc \in {"recheck", "refresh_token", "attempt", "http", "write", "save",
                          "save_write"}

\* C10: at most one refresh POST is in flight, and its sender holds the
\* refresh lock; a caller that found the token expired is blocked on the
\* refresh lock, or holds it (it is the one refreshing), or has returned: with
\* a token newer than the expired one it saw, which is the token then in the
\* credentials, or with the error of its own failed refresh, or with
\* TokenExpired when auto_refresh is off.
C10_SingleFlightRefresh ==
    /\ Cardinality(InFlight) <= 1
    /\ \A c \in InFlight : HoldsRefreshLock(c)
    /\ \A c \in Callers :
         callers[c].seen # -1 =>
            \/ callers[c].pc = "lock"
            \/ HoldsRefreshLock(c)
            \/ /\ callers[c].pc = "done"
               /\ callers[c].result.kind = "Ok"
               /\ callers[c].result.token > callers[c].seen
               /\ callers[c].result.token = callers[c].result.current
            \/ /\ callers[c].pc = "done"
               /\ callers[c].result.kind = "Err"
               /\ IF callers[c].result.error = "TokenExpired"
                  THEN ~auto_refresh
                  ELSE callers[c].attempt >= 1

\* Two callers found the same token expired; one refreshed it, the other was
\* blocked on the refresh lock and returned the refreshed token from its
\* re-check.
C10_Witness ==
    \E a, b \in Callers :
        /\ a # b
        /\ callers[a].pc = "done" /\ callers[a].result.via = "refresh"
        /\ callers[a].result.kind = "Ok"
        /\ callers[b].pc = "done" /\ callers[b].result.via = "recheck"
        /\ callers[b].seen = callers[a].seen
        /\ callers[b].result.token = callers[a].result.token

AllCalledOnce ==
    /\ calls = MaxCallers
    /\ \A c \in Callers : callers[c].pc = "done"

AllFoundExpired == \A c \in Callers : callers[c].seen = 0

OneNewTokenForAll ==
    /\ http_posts = 1
    /\ \A c \in Callers :
         /\ callers[c].result.kind = "Ok"
         /\ callers[c].result.token = credentials.access_token
         /\ callers[c].result.token > callers[c].seen

C12_DiskHasReturnedToken ==
    \A c \in Callers :
        (callers[c].pc = "done" /\ callers[c].result.kind = "Ok"
            /\ callers[c].result.via = "refresh"
            /\ callers[c].result.token = credentials.access_token)
        => disk = callers[c].result.token

\* C13: the credentials file always holds complete credentials, the previous
\* ones or the new ones (-1 stands for an empty or partial file).
C13_FileNeverPartial == disk # -1

\* ProxyError::into_response: the HTTP status and the error type sent to the
\* client for an error variant
into_response(error) ==
    CASE error \in {"OAuth", "InvalidCredentials", "TokenExpired", "OAuthRefresh"} ->
           [status |-> 401, type |-> "authentication_error"]
      [] error \in {"InvalidRequest", "Translation"} ->
           [status |-> 400, type |-> "invalid_request_error"]
      [] error = "TooManyRequests" -> [status |-> 429, type |-> "rate_limit_error"]
      [] error = "Overloaded" -> [status |-> 529, type |-> "overloaded_error"]
      [] error = "ServiceUnavailable" -> [status |-> 503, type |-> "api_error"]
      [] error \in {"Config", "ConfigParsing", "Internal"} ->
           [status |-> 500, type |-> "api_error"]
      [] error \in {"ProjectResolution", "GeminiApi"} ->
           [status |-> 502, type |-> "api_error"]
      [] OTHER -> [status |-> 500, type |-> "api_error"]

\* C14: a caller whose token refresh failed receives an error that reaches
\* the client as 401 authentication_error, and the refresh was not retried.
C14_RefreshFailureIsAuthentication ==
    \A c \in Callers :
        (callers[c].pc = "done" /\ callers[c].result.kind = "Err"
            /\ callers[c].result.via = "refresh")
        => /\ into_response(callers[c].result.error) =
                [status |-> 401, type |-> "authentication_error"]
           /\ callers[c].attempt = 1

(***************************************************************************)
(* The model health tracker (gemini::availability) and the upstream        *)
(* generation calls that report to it (gemini::client, gemini::streaming). *)
(* A status is "Healthy", "StickyRetry" or "Terminal"; a model without a   *)
(* record is "Absent".                                                     *)
(***************************************************************************)
Models == {"gemini-2.5-pro", "gemini-2.5-flash"}

status_of(h, model) == IF model \in DOMAIN h THEN h[model] ELSE "Absent"

\* HashMap::insert
health_insert(h, model, status) ==
    [m \in DOMAIN h \cup {model} |-> IF m = model THEN status ELSE h[m]]

\* ModelAvailabilityService::mark_healthy
mark_healthy(h, model) ==
    IF model \in DOMAIN h THEN health_insert(h, model, "Healthy") ELSE h

\* ModelAvailabilityService::mark_terminal
mark_terminal(h, model) == health_insert(h, model, "Terminal")

\* ModelAvailabilityService::mark_retry_once
mark_retry_once(h, model) ==
    IF status_of(h, model) = "Terminal" THEN h
    ELSE health_insert(h, model, "StickyRetry")

\* ModelAvailabilityService::is_available
is_available(h, model) == status_of(h, model) # "Terminal"

\* What the upstream answers to a generation call: an HTTP status, with for a
\* 429 whether the body contains "Daily"; status 0 stands for a request that
\* could not be sent.
UpstreamAnswers ==
    { [status |-> st, daily |-> FALSE] : st \in {0, 200, 403, 429, 500, 503} }
    \cup { [status |-> 429, daily |-> TRUE] }

is_success(status) == status \in 200..299
is_server_error(status) == status \in 500..599

\* GeminiClient::generate_content, its calls to the health tracker
generate_content_health(h, model, answer) ==
    IF answer.status = 0 THEN h
    ELSE IF ~is_success(answer.status)
    THEN IF answer.status = 429
         THEN IF answer.daily THEN mark_terminal(h, model)
              ELSE mark_retry_once(h, model)
         ELSE h
    ELSE mark_healthy(h, model)

notHealthVars ==
    <<streamVars, thinkVars, sigVars, oauthVars, retryVars, sseVars,
      schemaVars, requestVars, mappingVars,
      httpVars, detailVars, logVars, cacheVars>>

\* a unary upstream call for a model is answered
GenerateContent(model) ==
    /\ \E answer \in UpstreamAnswers :
         /\ health' = generate_content_health(health, model, answer)
         /\ last_upstream' = [any |-> TRUE, model |-> model, streaming |-> FALSE,
                              status |-> answer.status, daily |-> answer.daily,
                              before |-> status_of(health, model)]
    /\ UNCHANGED notHealthVars

\* a streaming upstream call for a model is answered: stream_generate_content
\* never calls the health tracker
StreamGenerateContent(model) ==
    /\ \E answer \in UpstreamAnswers :
         last_upstream' = [any |-> TRUE, model |-> model, streaming |-> TRUE,
                           status |-> answer.status, daily |-> answer.daily,
                           before |-> status_of(health, model)]
    /\ UNCHANGED <<health, notHealthVars>>

NextHealth == \E model \in Models : GenerateContent(model) \/ StreamGenerateContent(model)

SpecHealth == Init /\ [][NextHealth]_vars

\* C15: a model whose health is Terminal is still Terminal, and unavailable,
\* after any step.
C15_TerminalAbsorbing ==
    [][\A m \in Models :
         status_of(health, m) = "Terminal" =>
            (status_of(health', m) = "Terminal" /\ ~is_available(health', m))]_vars

\* The status C16 gives a model after an answered call; a model that never
\* failed has no record, which counts as Healthy.
ExpectedHealth(status, daily) ==
    IF is_success(status) THEN {"Healthy", "Absent"}
    ELSE IF status = 429 THEN (IF daily THEN {"Terminal"} ELSE {"StickyRetry"})
    ELSE IF is_server_error(status) THEN {"StickyRetry"}
    ELSE {"Healthy", "StickyRetry", "Terminal", "Absent"}

\* C16: after an answered upstream generation call, unary or streaming, for a
\* model that was not Terminal, the model's health is the one the answer
\* calls for: Healthy on 2xx, Terminal on a daily-quota 429, StickyRetry on
\* any other 429 and on 5xx.
C16_EveryCallUpdatesHealth ==
    (last_upstream.any /\ last_upstream.status # 0 /\ last_upstream.before # "Terminal") =>
        status_of(health, last_upstream.model)
            \in ExpectedHealth(last_upstream.status, last_upstream.daily)

\* C31: a generation call, unary or streaming, for a model that is Terminal
\* sends no request to the upstream (status 0 is a call that sent none).
C31_TerminalGetsNoTraffic ==
    (last_upstream.any /\ last_upstream.before = "Terminal") =>
        last_upstream.status = 0

(***************************************************************************)
(* utils::retry::with_retry.  Durations are in milliseconds.  One run is   *)
(* followed from its call to its return: pc is idle, call (about to invoke *)
(* the operation), sleep (in tokio::time::sleep) or done.  retry.last is   *)
(* the status of the latest attempt (200 for Ok), retry.prev the one       *)
(* before it; waited is the sum of the sleeps, hints the number of sleeps  *)
(* whose length came from a retryDelay; elapsed is the time since          *)
(* create_backoff, which next_backoff reads from the clock.                *)
(***************************************************************************)
\* create_backoff
initial_interval == 500
multiplier == 2
max_interval == 30000
max_elapsed_time == 120000
\* randomization_factor 0.3, as a percentage
randomization_factor == 30
\* with_retry: the wait when next_backoff returns None
fallback_delay == 30000
\* parse_duration_string: the cap of a retryDelay, in seconds
delay_cap_seconds == 60

NoDuration == -1

min(a, b) == IF a <= b THEN a ELSE b
max(a, b) == IF a >= b THEN a ELSE b

\* Error bodies of the upstream: without RetryInfo, or with a retryDelay of
\* so many seconds
ErrorBodies ==
    {[retry_info |-> FALSE, seconds |-> 0]}
        \cup {[retry_info |-> TRUE, seconds |-> n] : n \in {1, 60, 120}}

\* What one invocation of the operation returns
OperationResults ==
    {[status |-> 200, body |-> [retry_info |-> FALSE, seconds |-> 0]]}
        \cup {[status |-> st, body |-> b] :
                 st \in {400, 429, 500, 502, 503, 504, 529}, b \in ErrorBodies}

\* How long one invocation of the operation takes
OperationTimes == {0, 121000}

\* parse_duration_string: seconds, capped at 60, as milliseconds
parse_duration_string(seconds) == max(min(seconds, delay_cap_seconds), 0) * 1000

\* parse_retry_delay: the retryDelay of the RetryInfo detail, if any
parse_retry_delay(error_body) ==
    IF error_body.retry_info THEN parse_duration_string(error_body.seconds)
    ELSE NoDuration

\* ExponentialBackoff::next_backoff as with_retry uses it: the intervals it
\* can return for the jitter drawn (NoDuration for None), each with the
\* current_interval it leaves
next_backoff(current_interval, elapsed_time) ==
    IF elapsed_time > max_elapsed_time
    THEN {[delay |-> NoDuration, current_interval |-> current_interval]}
    ELSE LET delta == (current_interval * randomization_factor) \div 100
         IN {[delay |-> IF elapsed_time + randomized <= max_elapsed_time
                        THEN randomized ELSE NoDuration,
              current_interval |-> min(current_interval * multiplier, max_interval)] :
                randomized \in {current_interval - delta, current_interval,
                                current_interval + delta}}

\* with_retry, lines 133-154: the delays it can choose after a failure
retry_delays(error_body, current_interval, elapsed_time) ==
    LET google_delay == parse_retry_delay(error_body)
    IN IF google_delay # NoDuration
       THEN {[delay |-> google_delay, current_interval |-> current_interval,
              hinted |-> TRUE]}
       ELSE {[delay |-> IF b.delay = NoDuration THEN fallback_delay ELSE b.delay,
              current_interval |-> b.current_interval, hinted |-> FALSE] :
                b \in next_backoff(current_interval, elapsed_time)}

notRetryVars ==
    <<streamVars, thinkVars, sigVars, oauthVars, healthVars, sseVars,
      schemaVars, requestVars, mappingVars,
      httpVars, detailVars, logVars, cacheVars>>

\* with_retry is called: create_backoff, attempt = 0
WithRetry ==
    /\ retry.pc \in {"idle", "done"}
    /\ retry' = [pc |-> "call", attempt |-> 0, last |-> 0, prev |-> 0,
                 current_interval |-> initial_interval, elapsed |-> 0, delay |-> 0,
                 waited |-> 0, hints |-> 0, result |-> "None"]
    /\ UNCHANGED notRetryVars

\* one turn of the loop up to the sleep: attempt += 1, the operation runs,
\* and with_retry returns or chooses its delay
Operation ==
    /\ retry.pc = "call"
    /\ \E r \in OperationResults, took \in OperationTimes :
         LET attempt == retry.attempt + 1
             now == retry.elapsed + took
             seen == [retry EXCEPT !.attempt = attempt, !.prev = retry.last,
                                   !.last = r.status, !.elapsed = now]
         IN IF r.status = 200
            THEN retry' = [seen EXCEPT !.pc = "done", !.result = "Ok"]
            ELSE IF ~retry_again(r.status, attempt)
            THEN retry' = [seen EXCEPT !.pc = "done", !.result = "Err"]
            ELSE \E d \in retry_delays(r.body, retry.current_interval, now) :
                   retry' = [seen EXCEPT !.pc = "sleep", !.delay = d.delay,
                                         !.current_interval = d.current_interval,
                                         !.hints = IF d.hinted THEN @ + 1 ELSE @]
    /\ UNCHANGED notRetryVars

\* tokio::time::sleep(delay) is over
Sleep ==
    /\ retry.pc = "sleep"
    /\ retry' = [retry EXCEPT !.pc = "call", !.waited = @ + retry.delay,
                              !.elapsed = @ + retry.delay]
    /\ UNCHANGED notRetryVars

NextRetry == WithRetry \/ Operation \/ Sleep

SpecRetry == Init /\ [][NextRetry]_vars

RetryableStatuses == {429, 500, 502, 503, 504}

\* C17: with_retry invokes the operation at most 5 times; an invocation
\* after the first follows a failure with status 429, 500, 502, 503 or 504;
\* and after a success, or a failure with any other status, with_retry has
\* returned that result.
C17_RetryOnlyRetryable ==
    /\ retry.attempt <= 5
    /\ retry.attempt >= 2 => retry.prev \in RetryableStatuses
    /\ (retry.attempt >= 1 /\ retry.last = 200) =>
          (retry.pc = "done" /\ retry.result = "Ok")
    /\ (retry.attempt >= 1 /\ retry.last # 200 /\ retry.last \notin RetryableStatuses) =>
          (retry.pc = "done" /\ retry.result = "Err")
    /\ retry.pc = "done" =>
          \/ retry.last = 200
          \/ retry.last \notin RetryableStatuses
          \/ retry.attempt = 5

\* the fifth invocation fails with a retryable status and with_retry returns
\* the error
C17_Witness ==
    /\ retry.pc = "done" /\ retry.attempt = 5 /\ retry.result = "Err"
    /\ retry.last = 504 /\ retry.prev = 502

\* C18: the sum of the waits of one with_retry run is at most 2 minutes.
C18_WaitsWithinTwoMinutes == retry.waited <= 120000

(***************************************************************************)
(* gemini::streaming::parse_sse_stream.  The upstream body is a string of  *)
(* bytes; the byte "^" stands for 0xC3 and "~" for 0xA9, the two bytes of  *)
(* one two-byte UTF-8 character, which decodes to the character "@";       *)
(* U+FFFD is "?".  Every other byte is an ASCII character.  buffer is the  *)
(* decoded String, and offsets into it count characters.  A JSON payload   *)
(* is "{" text "}", standing for a GenerateContentResponse whose first     *)
(* part has that text.  An Option is a sequence of length 0 or 1.          *)
(***************************************************************************)
MaxSseEvents == 2   \* events in one upstream body
MaxChunkLen == 3    \* bytes in an HTTP chunk that is not all the rest of the body

LeadByte == "^"
ContinuationByte == "~"
DecodedChar == "@"
ReplacementChar == "?"
LFLF == "\n\n"
CRLFCRLF == "\r\n\r\n"

\* String::from_utf8_lossy on one chunk: a complete sequence decodes, the
\* bytes of an incomplete one become U+FFFD
RECURSIVE from_utf8_lossy(_)
from_utf8_lossy(bytes) ==
    IF bytes = "" THEN ""
    ELSE LET b == SubSeq(bytes, 1, 1)
         IN IF b = LeadByte
            THEN IF Len(bytes) >= 2 /\ SubSeq(bytes, 2, 2) = ContinuationByte
                 THEN DecodedChar \o from_utf8_lossy(StrFrom(bytes, 2))
                 ELSE ReplacementChar \o from_utf8_lossy(StrFrom(bytes, 1))
            ELSE IF b = ContinuationByte
            THEN ReplacementChar \o from_utf8_lossy(StrFrom(bytes, 1))
            ELSE b \o from_utf8_lossy(StrFrom(bytes, 1))

IsWhitespace(c) == c \in {" ", "\n", "\r", "\t"}

\* str::trim
RECURSIVE trim(_)
trim(text) ==
    IF text = "" THEN ""
    ELSE IF IsWhitespace(SubSeq(text, 1, 1)) THEN trim(StrFrom(text, 1))
    ELSE IF IsWhitespace(SubSeq(text, Len(text), Len(text)))
    THEN trim(StrTo(text, Len(text) - 1))
    ELSE text

\* str::lines: split at "\n", a "\r" before the "\n" belongs to the line
\* ending; no empty last line
RECURSIVE lines(_)
lines(text) ==
    IF text = "" THEN <<>>
    ELSE LET nl == Find(text, "\n")
         IN IF nl = -1 THEN <<text>>
            ELSE LET line == StrTo(text, nl)
                     bare == IF EndsWith(line, "\r") THEN StrTo(line, Len(line) - 1)
                             ELSE line
                 IN <<bare>> \o lines(StrFrom(text, nl + 1))

\* serde_json::from_str::<GenerateContentResponse>
json_from_str(data) ==
    IF /\ Len(data) >= 2
       /\ SubSeq(data, 1, 1) = "{"
       /\ SubSeq(data, Len(data), Len(data)) = "}"
       /\ \A i \in 2..(Len(data) - 1) :
             SubSeq(data, i, i) \notin {"{", "}", "\n", "\r"}
    THEN <<[kind |-> "Ok", text |-> SubSeq(data, 2, Len(data) - 1)]>>
    ELSE <<>>

\* Mutant: only the first line of the event is looked at.
data_line_first_only(ls) ==
    IF ls # <<>> /\ StartsWith(Head(ls), "data:") THEN <<trim(StrFrom(Head(ls), 5))>>
    ELSE <<>>

\* parse_sse_event, the `for line in lines` loop: the payload of the first
\* line that starts with "data:"
RECURSIVE data_line(_)
data_line(ls) ==
    IF ls = <<>> THEN <<>>
    ELSE IF StartsWith(Head(ls), "data:") THEN <<trim(StrFrom(Head(ls), 5))>>
    ELSE data_line(Tail(ls))

\* parse_sse_event
parse_sse_event(event_data) ==
    LET found == data_line(lines(event_data))
    IN IF found = <<>> THEN <<>>
       ELSE IF found[1] = "" \/ found[1] = "[DONE]" THEN <<>>
       ELSE json_from_str(found[1])

\* Mutant: \n\n is taken whenever the buffer has one.
pick_lf_first(lf_pos, crlf_pos) ==
    IF lf_pos # -1 THEN [event_end |-> lf_pos, delim_len |-> 2]
    ELSE [event_end |-> crlf_pos, delim_len |-> 4]

\* parse_sse_stream, the match on (lf_pos, crlf_pos) when one is Some
pick_delimiter(lf_pos, crlf_pos) ==
    IF lf_pos # -1 /\ crlf_pos # -1
    THEN IF lf_pos <= crlf_pos THEN [event_end |-> lf_pos, delim_len |-> 2]
         ELSE [event_end |-> crlf_pos, delim_len |-> 4]
    ELSE IF lf_pos # -1 THEN [event_end |-> lf_pos, delim_len |-> 2]
    ELSE [event_end |-> crlf_pos, delim_len |-> 4]

\* parse_sse_stream, the inner `loop`: every complete event of the buffer is
\* taken out and parsed; both is the latest choice made with both
\* delimiters in the buffer
RECURSIVE drain_events(_, _, _)
drain_events(buffer, events, both) ==
    LET lf_pos == Find(buffer, LFLF)
        crlf_pos == Find(buffer, CRLFCRLF)
    IN IF lf_pos = -1 /\ crlf_pos = -1
       THEN [buffer |-> buffer, events |-> events, both |-> both]
       ELSE LET pick == pick_delimiter(lf_pos, crlf_pos)
                event_data == StrTo(buffer, pick.event_end)
            IN drain_events(StrFrom(buffer, pick.event_end + pick.delim_len),
                            events \o parse_sse_event(event_data),
                            IF lf_pos # -1 /\ crlf_pos # -1
                            THEN [lf |-> lf_pos, crlf |-> crlf_pos,
                                  event_end |-> pick.event_end]
                            ELSE both)

\* parse_sse_stream after the byte stream: what is left in the buffer is
\* parsed as a last event
final_event(buffer) ==
    IF trim(buffer) # "" THEN parse_sse_event(buffer) ELSE <<>>

\* Events the upstream sends, as bytes
SseEvents == {"data: {Hi}", "data: {^~}", "data: [DONE]", "id: 1\r\ndata:{A}"}
Delimiters == {LFLF, CRLFCRLF}

\* Upstream bodies: up to MaxSseEvents events, each followed by a delimiter;
\* the last one may come without
SseSources ==
    UNION {{src \in [1..n -> [event : SseEvents, delim : Delimiters \cup {""}]] :
              \A i \in 1..(n - 1) : src[i].delim # ""} : n \in 1..MaxSseEvents}

RECURSIVE Render(_)
Render(source) ==
    IF source = <<>> THEN ""
    ELSE Head(source).event \o Head(source).delim \o Render(Tail(source))

\* the chunk ends inside the two-byte character
SplitsChar(chunk) == EndsWith(chunk, LeadByte)

notSseVars ==
    <<streamVars, thinkVars, sigVars, oauthVars, healthVars, retryVars,
      schemaVars, requestVars, mappingVars,
      httpVars, detailVars, logVars, cacheVars>>

\* parse_sse_stream is called on a response body
ParseSseStream ==
    /\ sse.pc = "idle"
    /\ \E source \in SseSources :
         sse' = [pc |-> "open", source |-> source, rest |-> Render(source),
                 buffer |-> "", events |-> <<>>,
                 split_char |-> FALSE, failed |-> FALSE, both |-> NoPick]
    /\ UNCHANGED notSseVars

\* byte_stream yields Ok(chunk): the next n bytes of the body, a few of
\* them or all that is left
NextChunk ==
    /\ sse.pc = "open"
    /\ sse.rest # ""
    /\ \E n \in 1..Len(sse.rest) :
         /\ n <= MaxChunkLen \/ n = Len(sse.rest)
         /\ LET chunk == StrTo(sse.rest, n)
                chunk_str == from_utf8_lossy(chunk)
                after == drain_events(sse.buffer \o chunk_str, sse.events, sse.both)
            IN sse' = [sse EXCEPT !.rest = StrFrom(sse.rest, n),
                                  !.buffer = after.buffer,
                                  !.events = after.events,
                                  !.both = after.both,
                                  !.split_char = @ \/ SplitsChar(chunk)]
    /\ UNCHANGED notSseVars

\* byte_stream yields Err: the error is yielded, the loop is left, and the
\* buffer is parsed as a last event
StreamError ==
    /\ sse.pc = "open"
    /\ sse' = [sse EXCEPT !.pc = "ended", !.failed = TRUE,
                          !.events = @ \o <<[kind |-> "Err", text |-> ""]>>
                                       \o final_event(sse.buffer)]
    /\ UNCHANGED notSseVars

\* byte_stream ends
StreamEnd ==
    /\ sse.pc = "open"
    /\ sse.rest = ""
    /\ sse' = [sse EXCEPT !.pc = "ended",
                          !.events = @ \o final_event(sse.buffer)]
    /\ UNCHANGED notSseVars

NextSse == ParseSseStream \/ NextChunk \/ StreamError \/ StreamEnd

SpecSse == Init /\ [][NextSse]_vars

\* What parse_sse_stream yields for a body that arrives as one chunk
OneChunk(bytes) ==
    LET after == drain_events(from_utf8_lossy(bytes), <<>>, NoPick)
    IN after.events \o final_event(after.buffer)

\* C19: when the whole body has arrived, in whatever chunks, the events
\* yielded are those yielded for the same bytes arriving as one chunk.
C19_ChunkBoundaryAgnostic ==
    (sse.pc = "ended" /\ ~sse.failed) => sse.events = OneChunk(Render(sse.source))

\* the same events, each terminated by LF-LF
AllLf(source) ==
    [i \in DOMAIN source |->
        [source[i] EXCEPT !.delim = IF @ = "" THEN "" ELSE LFLF]]

\* C20: a body whose events end in LF-LF or CRLF-CRLF in any mix yields the
\* events of the same body with every delimiter LF-LF, in the same order
\* (for chunks that do not cut a character in two); and whenever both
\* delimiters were in the buffer the event ended at the smaller offset.
C20_DelimiterAgnostic ==
    /\ (sse.pc = "ended" /\ ~sse.failed /\ ~sse.split_char) =>
          sse.events = OneChunk(Render(AllLf(sse.source)))
    /\ sse.both # NoPick =>
          sse.both.event_end = min(sse.both.lf, sse.both.crlf)

\* two events were parsed from a body that ends the first with CRLF-CRLF and
\* the second with LF-LF, both delimiters in the buffer at once
C20_Witness ==
    /\ sse.pc = "ended" /\ ~sse.failed /\ ~sse.split_char
    /\ Len(sse.source) = 2
    /\ sse.source[1].delim = CRLFCRLF /\ sse.source[2].delim = LFLF
    /\ Len(sse.events) = 2
    /\ sse.both # NoPick /\ sse.both.crlf < sse.both.lf

\* Blocks the upstream sends: two events with a payload that parses, one of
\* them after an id line, and blocks with an empty payload, the [DONE]
\* marker, no data line, and a payload that is no JSON
DropBlocks == {"data: {Hi}", "id: 1\r\ndata:{A}", "data:", "data: [DONE]", "id: 1",
               "data: {Hi"}

DropSources ==
    UNION {{src \in [1..n -> [event : DropBlocks, delim : Delimiters \cup {""}]] :
              \A i \in 1..(n - 1) : src[i].delim # ""} : n \in 1..MaxSseEvents}

\* parse_sse_stream is called on a response body made of such blocks
ParseSseBlocks ==
    /\ sse.pc = "idle"
    /\ \E source \in DropSources :
         sse' = [pc |-> "open", source |-> source, rest |-> Render(source),
                 buffer |-> "", events |-> <<>>,
                 split_char |-> FALSE, failed |-> FALSE, both |-> NoPick]
    /\ UNCHANGED notSseVars

NextSseBlocks == ParseSseBlocks \/ NextChunk \/ StreamError \/ StreamEnd

SpecSseBlocks == Init /\ [][NextSseBlocks]_vars

\* the event each block stands for, if any
Delivered ==
    [b \in {"data: {Hi}"} |-> <<[kind |-> "Ok", text |-> "Hi"]>>]
    @@ [b \in {"id: 1\r\ndata:{A}"} |-> <<[kind |-> "Ok", text |-> "A"]>>]
    @@ [b \in {"data:", "data: [DONE]", "id: 1", "data: {Hi"} |-> <<>>]

RECURSIVE DeliveredOf(_)
DeliveredOf(source) ==
    IF source = <<>> THEN <<>>
    ELSE Delivered[Head(source).event] \o DeliveredOf(Tail(source))

\* C34: a block with an empty payload, with [DONE], without data line or
\* with a payload that is no JSON yields nothing and does not end the
\* stream: when the body has been read, the events yielded are those of
\* the other blocks, all of them and in their order.
C34_BadBlocksDropped ==
    (sse.pc = "ended" /\ ~sse.failed /\ \A i \in DOMAIN sse.source :
                                          sse.source[i].event \in DropBlocks) =>
        sse.events = DeliveredOf(sse.source)

\* a block that is no JSON was dropped and the event after it, which has
\* its data on the second line, was delivered
C34_Witness ==
    /\ sse.pc = "ended" /\ ~sse.failed
    /\ Len(sse.source) = 2
    /\ sse.source[1].event = "data: {Hi" /\ sse.source[2].event = "id: 1\r\ndata:{A}"
    /\ sse.events = <<[kind |-> "Ok", text |-> "A"]>>

\* C39: the stream error of a failed read is the last item parse_sse_stream
\* yields.
C39_ErrorIsLastItem ==
    sse.failed => sse.events[Len(sse.events)].kind = "Err"

\* The 10 MiB of the buffer limit, scaled to the bodies explored here
ScaledBufferLimit == 8

\* C21: a buffer that has grown past the limit and holds no event delimiter
\* is never kept: the stream has been ended with a stream error.
C21_BufferOverflowAborts ==
    (/\ Len(sse.buffer) > ScaledBufferLimit
     /\ Find(sse.buffer, LFLF) = -1
     /\ Find(sse.buffer, CRLFCRLF) = -1) =>
        (sse.pc = "ended" /\ sse.failed)

(***************************************************************************)
(* translation::tools::sanitize_schema.  A serde_json::Value is a record   *)
(* [t, v]: t is "obj" (v a function from keys to Values), "arr" (v a       *)
(* sequence of Values), "str" or "bool".                                   *)
(***************************************************************************)
MaxSchemaSteps == 3   \* steps in which an input_schema is built

JStr(text) == [t |-> "str", v |-> text]
JBool(b) == [t |-> "bool", v |-> b]
JObj(map) == [t |-> "obj", v |-> map]
JArr(arr) == [t |-> "arr", v |-> arr]
EmptyObject == JObj(<<>>)

\* serde_json::Map::insert
map_insert(map, key, value) ==
    [k \in DOMAIN map \cup {key} |-> IF k = key THEN value ELSE map[k]]
\* serde_json::Map::remove
map_remove(map, key) == [k \in DOMAIN map \ {key} |-> map[k]]

FORBIDDEN ==
    {"$schema", "$id", "$ref", "definitions", "$defs", "exclusiveMinimum",
     "exclusiveMaximum", "minimum", "maximum", "minLength", "maxLength",
     "minItems", "maxItems", "propertyNames", "patternProperties",
     "additionalItems", "default", "pattern", "contentMediaType",
     "contentEncoding"}

RECURSIVE remove_keys_impl(_, _)
remove_keys_impl(value, inside_properties) ==
    IF value.t = "obj"
    THEN LET map == IF ~inside_properties
                    THEN [k \in DOMAIN value.v \ FORBIDDEN |-> value.v[k]]
                    ELSE value.v
         IN JObj([key \in DOMAIN map |->
                    remove_keys_impl(map[key], key = "properties" \/ key = "items")])
    ELSE IF value.t = "arr"
    THEN JArr([i \in DOMAIN value.v |-> remove_keys_impl(value.v[i], inside_properties)])
    ELSE value

RECURSIVE sanitize_format_field(_)
sanitize_format_field(value) ==
    IF value.t = "obj"
    THEN LET map == IF /\ "format" \in DOMAIN value.v
                       /\ value.v["format"].t = "str"
                       /\ value.v["format"].v # "enum"
                       /\ value.v["format"].v # "date-time"
                    THEN map_remove(value.v, "format")
                    ELSE value.v
         IN JObj([key \in DOMAIN map |-> sanitize_format_field(map[key])])
    ELSE IF value.t = "arr"
    THEN JArr([i \in DOMAIN value.v |-> sanitize_format_field(value.v[i])])
    ELSE value

\* Mutant: a complex additionalProperties schema is emptied.
ComplexAdditionalEmptied == EmptyObject

\* sanitize_additional_properties: what replaces a complex schema
ComplexAdditional == JBool(TRUE)

RECURSIVE sanitize_additional_properties(_)
sanitize_additional_properties(value) ==
    IF value.t = "obj"
    THEN LET map ==
               IF /\ "additionalProperties" \in DOMAIN value.v
                  /\ value.v["additionalProperties"].t = "obj"
               THEN LET obj == value.v["additionalProperties"].v
                    IN IF DOMAIN obj = {}
                       THEN map_insert(value.v, "additionalProperties", JBool(FALSE))
                       ELSE IF DOMAIN obj = {"type"} THEN value.v
                       ELSE map_insert(value.v, "additionalProperties", ComplexAdditional)
               ELSE value.v
         IN JObj([key \in DOMAIN map |-> sanitize_additional_properties(map[key])])
    ELSE IF value.t = "arr"
    THEN JArr([i \in DOMAIN value.v |-> sanitize_additional_properties(value.v[i])])
    ELSE value

RECURSIVE ensure_type_fields(_)
ensure_type_fields(value) ==
    IF value.t = "obj"
    THEN LET map == IF /\ DOMAIN value.v \cap {"type", "anyOf", "allOf", "oneOf"} = {}
                       /\ "properties" \in DOMAIN value.v
                    THEN map_insert(value.v, "type", JStr("object"))
                    ELSE value.v
         IN JObj([key \in DOMAIN map |-> ensure_type_fields(map[key])])
    ELSE IF value.t = "arr"
    THEN JArr([i \in DOMAIN value.v |-> ensure_type_fields(value.v[i])])
    ELSE value

sanitize_schema(value) ==
    ensure_type_fields(
        sanitize_additional_properties(
            sanitize_format_field(remove_keys_impl(value, FALSE))))

\* Keys and leaf values the input schemas are built from
SchemaKeys ==
    {"type", "properties", "items", "additionalProperties", "format", "minLength",
     "anyOf"}
SchemaLeaves == {JStr("string"), JStr("date-time"), EmptyObject}

notSchemaVars ==
    <<streamVars, thinkVars, sigVars, oauthVars, healthVars, retryVars, sseVars,
      requestVars, mappingVars,
      httpVars, detailVars, logVars, cacheVars>>

\* the client's schema gets one more key, with a leaf value
SchemaSet ==
    /\ ~schema.done /\ schema.steps < MaxSchemaSteps
    /\ \E key \in SchemaKeys, leaf \in SchemaLeaves :
         schema' = [schema EXCEPT !.steps = @ + 1,
                                  !.value = JObj(map_insert(@.v, key, leaf))]
    /\ UNCHANGED notSchemaVars

\* the client's schema is nested under a key of a new schema, as the list
\* of alternatives under anyOf
SchemaWrap ==
    /\ ~schema.done /\ schema.steps < MaxSchemaSteps
    /\ \E key \in SchemaKeys :
         schema' = [schema EXCEPT !.steps = @ + 1,
                                  !.value = IF key = "anyOf"
                                            THEN JObj(key :> JArr(<<@>>))
                                            ELSE JObj(key :> @)]
    /\ UNCHANGED notSchemaVars

\* translate_tool sanitizes the schema; the result is sanitized once more
TranslateTool ==
    /\ ~schema.done
    /\ schema' = [schema EXCEPT !.done = TRUE,
                                !.once = sanitize_schema(schema.value),
                                !.twice = sanitize_schema(sanitize_schema(schema.value))]
    /\ UNCHANGED notSchemaVars

NextSchema == SchemaSet \/ SchemaWrap \/ TranslateTool

SpecSchema == Init /\ [][NextSchema]_vars

\* C22: sanitizing a sanitized schema changes nothing.
C22_SanitizeIdempotent == schema.done => schema.twice = schema.once

\* a schema in which sanitize_schema replaced a complex additionalProperties
\* and dropped a key
C22_Witness ==
    /\ schema.done
    /\ schema.value.t = "obj" /\ "additionalProperties" \in DOMAIN schema.value.v
    /\ schema.value.v["additionalProperties"].t = "obj"
    /\ schema.once.v["additionalProperties"] = JBool(TRUE)
    /\ schema.once # schema.value

\* A schema and the schemas below it hold no forbidden keyword: the schema
\* itself, the schema of each property under "properties", and the schema
\* (or the schemas) under "items".
RECURSIVE NoForbiddenKeyword(_)
NoForbiddenKeyword(node) ==
    IF node.t = "arr" THEN \A i \in DOMAIN node.v : NoForbiddenKeyword(node.v[i])
    ELSE IF node.t # "obj" THEN TRUE
    ELSE /\ DOMAIN node.v \cap FORBIDDEN = {}
         /\ ("properties" \in DOMAIN node.v /\ node.v["properties"].t = "obj") =>
               \A name \in DOMAIN node.v["properties"].v :
                   NoForbiddenKeyword(node.v["properties"].v[name])
         /\ "items" \in DOMAIN node.v => NoForbiddenKeyword(node.v["items"])

\* C32: after sanitize_schema no schema holds a forbidden keyword: not the
\* root, not the schema of a property at any depth, not an items schema.
C32_NoForbiddenKeywordLeft == schema.done => NoForbiddenKeyword(schema.once)

\* The properties maps of a schema and of what it was sanitized to have the
\* same property names, in the schema itself and in the schemas below it that
\* both have: those of the properties, of "items", of "additionalProperties"
\* and of the alternatives under "anyOf".
RECURSIVE SamePropertyNames(_, _)
SamePropertyNames(before, after) ==
    IF before.t = "arr" /\ after.t = "arr"
    THEN \A i \in DOMAIN before.v \cap DOMAIN after.v :
            SamePropertyNames(before.v[i], after.v[i])
    ELSE IF before.t # "obj" \/ after.t # "obj" THEN TRUE
    ELSE /\ ("properties" \in DOMAIN before.v /\ before.v["properties"].t = "obj") =>
              /\ "properties" \in DOMAIN after.v
              /\ after.v["properties"].t = "obj"
              /\ DOMAIN after.v["properties"].v = DOMAIN before.v["properties"].v
              /\ \A name \in DOMAIN before.v["properties"].v :
                    SamePropertyNames(before.v["properties"].v[name],
                                      after.v["properties"].v[name])
         /\ \A key \in {"items", "additionalProperties", "anyOf"} :
               (key \in DOMAIN before.v /\ key \in DOMAIN after.v) =>
                   SamePropertyNames(before.v[key], after.v[key])

\* C33: sanitize_schema leaves the property names of every properties map
\* as they are; it removes none and adds none.
C33_PropertyNamesKept == schema.done => SamePropertyNames(schema.value, schema.once)

(***************************************************************************)
(* translation::request::translate_request: messages with every kind of    *)
(* block but images, and the tools.  An Option<Vec<_>> is [some, list].    *)
(* translate_content_block calls translate_tool_result with the tool name  *)
(* it looked up, while translate_tool_result as it is defined takes no     *)
(* such argument and names the response after the id; request.by_name      *)
(* says which of the two the build follows.                                *)
(***************************************************************************)
MaxRequestSteps == 3   \* messages and blocks a request is built from

\* tools::translate_tool_result as defined: the name is a placeholder
translate_tool_result(tool_use_id, content, is_error) ==
    Part("FunctionResponse", "tool_" \o tool_use_id, FALSE, None)

\* translate_content_block with its tool_id_to_name map: [part, map]
translate_content_block_tracking(block, tool_id_to_name, by_name) ==
    CASE block.type = "tool_use" ->
           [part |-> translate_tool_use(block.id, block.text),
            map |-> map_insert(tool_id_to_name, block.id, block.text)]
      [] block.type = "tool_result" ->
           LET tool_name == IF block.id \in DOMAIN tool_id_to_name
                            THEN tool_id_to_name[block.id]
                            ELSE "unknown_tool_" \o block.id
           IN [part |-> IF by_name
                        THEN Part("FunctionResponse", tool_name, FALSE, None)
                        ELSE translate_tool_result(block.id, block.text, FALSE),
               map |-> tool_id_to_name]
      [] OTHER -> [part |-> translate_content_block(block), map |-> tool_id_to_name]

\* translate_message_content, the `.map(|block| translate_content_block(..))`
RECURSIVE translate_blocks_tracking(_, _, _, _)
translate_blocks_tracking(blocks, parts, tool_id_to_name, by_name) ==
    IF blocks = <<>> THEN [parts |-> parts, map |-> tool_id_to_name]
    ELSE LET r == translate_content_block_tracking(Head(blocks), tool_id_to_name, by_name)
         IN translate_blocks_tracking(Tail(blocks), Append(parts, r.part), r.map, by_name)

\* translate_message_content with its tool_id_to_name map: [parts, map]
translate_message_content_tracking(content, tool_id_to_name, by_name) ==
    LET r == IF content.is_text
             THEN [parts |-> <<Part("Text", content.text, FALSE, None)>>,
                   map |-> tool_id_to_name]
             ELSE translate_blocks_tracking(content.blocks, <<>>, tool_id_to_name, by_name)
        filtered_parts == SelectSeq(r.parts, NotEmptyText)
    IN [parts |-> IF filtered_parts = <<>> THEN <<Part("Text", " ", FALSE, None)>>
                  ELSE filtered_parts,
        map |-> r.map]

\* translate_messages: the closure runs message by message; collect() stops
\* at the first Err
RECURSIVE translate_messages_tracking(_, _, _, _)
translate_messages_tracking(messages, contents, tool_id_to_name, by_name) ==
    IF messages = <<>> THEN [ok |-> TRUE, contents |-> contents]
    ELSE LET msg == Head(messages)
         IN IF msg.role \notin {"user", "assistant"}
            THEN [ok |-> FALSE, contents |-> <<>>]
            ELSE LET r == translate_message_content_tracking(msg.content,
                                                             tool_id_to_name, by_name)
                     content == [role |-> IF msg.role = "user" THEN "user" ELSE "model",
                                 parts |-> r.parts]
                 IN translate_messages_tracking(Tail(messages), Append(contents, content),
                                                r.map, by_name)

\* tools::translate_tool
translate_tool(tool) ==
    [name |-> tool.name, parameters_json_schema |-> sanitize_schema(tool.input_schema)]

\* tools::translate_tools
translate_tools(tools) ==
    IF tools = <<>> THEN <<>>
    ELSE <<[function_declarations |-> [i \in 1..Len(tools) |-> translate_tool(tools[i])]]>>

\* translate_request, steps 4, 8 and 9
translate_request(req, by_name) ==
    LET translated == translate_messages_tracking(req.messages, <<>>, <<>>, by_name)
        tools == IF req.tools.some
                 THEN [some |-> TRUE, list |-> translate_tools(req.tools.list)]
                 ELSE [some |-> FALSE, list |-> <<>>]
        tool_config == IF tools.some THEN "AUTO" ELSE None
    IN IF ~translated.ok THEN [ok |-> FALSE]
       ELSE [ok |-> TRUE, contents |-> translated.contents,
             tools |-> tools, tool_config |-> tool_config]

\* Client inputs
ToolCalls == {[id |-> "toolu_1", name |-> "get_weather"],
              [id |-> "toolu_2", name |-> "get_time"]}
ClientBlocks ==
    {ContentBlock("text", None, "hi"), ContentBlock("text", None, ""),
     ContentBlock("thinking", None, "")}
        \cup {ContentBlock("tool_use", c.id, c.name) : c \in ToolCalls}
        \cup {ContentBlock("tool_result", c.id, "sunny") : c \in ToolCalls}
ClientContents ==
    {[is_text |-> TRUE, text |-> "hi", blocks |-> <<>>],
     [is_text |-> TRUE, text |-> "", blocks |-> <<>>],
     [is_text |-> FALSE, text |-> "", blocks |-> <<>>]}
ClientTools ==
    {[some |-> FALSE, list |-> <<>>], [some |-> TRUE, list |-> <<>>],
     [some |-> TRUE,
      list |-> <<[name |-> "get_weather",
                  input_schema |-> JObj("properties" :> EmptyObject)]>>]}

notRequestVars ==
    <<streamVars, thinkVars, sigVars, oauthVars, healthVars, retryVars, sseVars,
      schemaVars, mappingVars,
      httpVars, detailVars, logVars, cacheVars>>

\* the client's request gets one more message
RequestMessage ==
    /\ ~request.done /\ request.steps < MaxRequestSteps
    /\ \E role \in {"user", "assistant", "tool"}, content \in ClientContents :
         request' = [request EXCEPT !.steps = @ + 1,
                                    !.messages = Append(@, [role |-> role,
                                                            content |-> content])]
    /\ UNCHANGED notRequestVars

\* the last message of the client's request gets one more block
RequestBlock ==
    /\ ~request.done /\ request.steps < MaxRequestSteps
    /\ request.messages # <<>>
    /\ ~request.messages[Len(request.messages)].content.is_text
    /\ \E block \in ClientBlocks :
         request' = [request EXCEPT !.steps = @ + 1,
                                    !.messages[Len(request.messages)].content.blocks =
                                        Append(@, block)]
    /\ UNCHANGED notRequestVars

\* messages_handler: the request is translated
TranslateRequest ==
    /\ ~request.done
    /\ \E tools \in ClientTools, by_name \in BOOLEAN :
         request' = [request EXCEPT !.done = TRUE, !.tools = tools, !.by_name = by_name,
                                    !.result = translate_request(
                                                   [messages |-> request.messages,
                                                    tools |-> tools], by_name)]
    /\ UNCHANGED notRequestVars

NextRequest == RequestMessage \/ RequestBlock \/ TranslateRequest

SpecRequest == Init /\ [][NextRequest]_vars

\* every block of the message is a Thinking block or an empty text, or the
\* message is an empty plain text
FiltersAway(content) ==
    IF content.is_text THEN content.text = ""
    ELSE \A i \in 1..Len(content.blocks) :
            \/ content.blocks[i].type = "thinking"
            \/ content.blocks[i].type = "text" /\ content.blocks[i].text = ""

\* C23: in a translated request every Content has at least one part, and a
\* message whose blocks all filter away has exactly one text part, " ".
C23_PartsNeverEmpty ==
    (request.done /\ request.result.ok) =>
        \A i \in 1..Len(request.messages) :
            /\ request.result.contents[i].parts # <<>>
            /\ FiltersAway(request.messages[i].content) =>
                  request.result.contents[i].parts = <<Part("Text", " ", FALSE, None)>>

\* a translated request with a message of Thinking blocks only
C23_Witness ==
    /\ request.done /\ request.result.ok
    /\ \E i \in 1..Len(request.messages) :
         /\ ~request.messages[i].content.is_text
         /\ request.messages[i].content.blocks # <<>>
         /\ \A j \in 1..Len(request.messages[i].content.blocks) :
               request.messages[i].content.blocks[j].type = "thinking"
         /\ request.result.contents[i].parts = <<Part("Text", " ", FALSE, None)>>

\* C24: a translated request has tools, and a tool_config of mode AUTO,
\* exactly when the client supplied at least one tool; without tools, or
\* with an empty list, it has neither.
C24_NoEmptyTools ==
    (request.done /\ request.result.ok) =>
        LET supplied == request.tools.some /\ request.tools.list # <<>>
        IN /\ request.result.tools.some <=> supplied
           /\ request.result.tools.some => request.result.tools.list # <<>>
           /\ request.result.tool_config = (IF supplied THEN "AUTO" ELSE None)

RECURSIVE Flatten(_)
Flatten(seqs) == IF seqs = <<>> THEN <<>> ELSE Head(seqs) \o Flatten(Tail(seqs))

\* the blocks of all messages, in order
AllBlocks(messages) ==
    Flatten([i \in 1..Len(messages) |->
                IF messages[i].content.is_text THEN <<>>
                ELSE messages[i].content.blocks])

\* the parts of all contents, in order
AllParts(contents) == Flatten([i \in 1..Len(contents) |-> contents[i].parts])

IsToolResult(block) == block.type = "tool_result"
IsFunctionResponse(part) == part.kind = "FunctionResponse"

\* the names of the ToolUse blocks with the id of block p that precede it
EarlierToolUseNames(blocks, p) ==
    {blocks[q].text : q \in {n \in 1..(p - 1) : /\ blocks[n].type = "tool_use"
                                                /\ blocks[n].id = blocks[p].id}}

\* C29: the FunctionResponse part made from a ToolResult block has the name
\* of the ToolUse block with the same tool_use_id that precedes the
\* ToolResult in the message list.
C29_FunctionResponseNamed ==
    (request.done /\ request.result.ok) =>
        LET blocks == AllBlocks(request.messages)
            results == {p \in 1..Len(blocks) : IsToolResult(blocks[p])}
            responses == SelectSeq(AllParts(request.result.contents), IsFunctionResponse)
            \* the k-th ToolResult block of the request
            nth(p) == Cardinality({q \in results : q <= p})
        IN /\ Len(responses) = Cardinality(results)
           /\ \A p \in results :
                EarlierToolUseNames(blocks, p) # {} =>
                    responses[nth(p)].text \in EarlierToolUseNames(blocks, p)

\* C25: a translated unary response carries the stop_reason mapped from the
\* upstream finish_reason, and tool_use instead of end_turn when it contains
\* a ToolUse block.
C25_UnaryStopReason ==
    (unary_result.any /\ unary_result.ok) =>
        LET mapped == map_stop_reason(unary_result.finish_reason)
            tool_used == \E i \in 1..Len(unary_result.content) :
                            unary_result.content[i].type = "tool_use"
        IN unary_result.stop_reason =
              (IF tool_used /\ mapped = "end_turn" THEN "tool_use" ELSE mapped)

(***************************************************************************)
(* models::mapping::map_model.                                             *)
(***************************************************************************)
MODEL_MAP ==
    [k \in {"claude-opus-4-5-20251101", "claude-opus-4.5", "claude-opus-4-5"}
        |-> "gemini-3-pro-preview"]
    @@ [k \in {"claude-sonnet-4-5-20250929", "claude-sonnet-4.5", "claude-sonnet-4-5"}
        |-> "gemini-3-flash-preview"]
    @@ [k \in {"claude-haiku-4-5-20251001", "claude-haiku-4.5", "claude-haiku-4-5",
               "claude-opus-4-1-20250805", "claude-opus-4.1", "claude-opus-4-1",
               "claude-opus-4-20250514", "claude-opus-4"}
        |-> "gemini-2.5-pro"]
    @@ [k \in {"claude-sonnet-4-20250514", "claude-sonnet-4"} |-> "gemini-2.5-flash"]
    @@ [k \in {"claude-3-7-sonnet-20250224", "claude-3.7-sonnet"}
        |-> "gemini-2.5-flash-lite"]

\* char::is_ascii_digit
is_ascii_digit(c) == c \in {"0", "1", "2", "3", "4", "5", "6", "7", "8", "9"}

strip_date_suffix(model) ==
    IF /\ Len(model) > 9
       /\ SubSeq(model, Len(model) - 8, Len(model) - 8) = "-"
       /\ \A i \in (Len(model) - 7)..Len(model) : is_ascii_digit(SubSeq(model, i, i))
    THEN SubSeq(model, 1, Len(model) - 9)
    ELSE model

\* map_model: the Gemini model, or InvalidRequest
map_model(claude_model) ==
    LET normalized == strip_date_suffix(claude_model)
    IN IF normalized \in DOMAIN MODEL_MAP
       THEN [ok |-> TRUE, gemini |-> MODEL_MAP[normalized]]
       ELSE [ok |-> FALSE, gemini |-> "InvalidRequest"]

\* Model names clients ask for: the keys of the table, each also with
\* something appended that is or is not a date, and names of no table entry
ModelSuffixes == {"", "-20250929", "-20251101", "-00000000", "-2025092", "-2025092x"}
ClientModels ==
    {k \o x : k \in DOMAIN MODEL_MAP, x \in ModelSuffixes}
        \cup {"", "  ", "unknown-model", "claude-sonnet", "CLAUDE-SONNET-4-5",
              "claude-3-7-sonnet", "-20250929"}

notMappingVars ==
    <<streamVars, thinkVars, sigVars, oauthVars, healthVars, retryVars, sseVars,
      schemaVars, requestVars,
      httpVars, detailVars, logVars, cacheVars>>

\* map_model is called with the model of a request
MapModel ==
    /\ \E model \in ClientModels :
         mapping' = [any |-> TRUE, model |-> model] @@ map_model(model)
    /\ UNCHANGED notMappingVars

NextMapping == MapModel

SpecMapping == Init /\ [][NextMapping]_vars

\* C26: for a name that is a key of the table, dated or not, map_model
\* returns the model listed for that key; for a name whose date-stripped
\* form is no key it returns an invalid-request error.
C26_TableKeysMapped ==
    mapping.any =>
        /\ mapping.model \in DOMAIN MODEL_MAP =>
              (mapping.ok /\ mapping.gemini = MODEL_MAP[mapping.model])
        /\ strip_date_suffix(mapping.model) \notin DOMAIN MODEL_MAP =>
              (~mapping.ok /\ mapping.gemini = "InvalidRequest")

(***************************************************************************)
(* The client-facing /v1/messages route (server::routes::create_router,    *)
(* server::handlers::messages_handler).  A response is a status and a      *)
(* body; a body is JSON, text or an event stream.                          *)
(***************************************************************************)
RequestBodyLimit == 52428800

\* the body that ProxyError::into_response builds with json!
error_response(error) ==
    [status |-> into_response(error).status,
     body |-> [kind |-> "json", type |-> "error",
               error |-> [type |-> into_response(error).type, message |-> error]]]

\* a response the framework writes by itself: a status line and a text
TextResponse(status, text) == [status |-> status, body |-> [kind |-> "text", text |-> text]]

\* the request goes on to the next layer, the extractor or the handler
Pass == [status |-> 0]

\* tower_http::limit::RequestBodyLimitLayer
RequestBodyLimitLayer(req) ==
    IF req.content_length > RequestBodyLimit
    THEN TextResponse(413, "length limit exceeded")
    ELSE Pass

\* the extractor Json(req): Json<MessagesRequest>: its rejection, unless the
\* body deserializes into a MessagesRequest
Json_from_request(req) ==
    IF ~req.json_content_type
    THEN TextResponse(415, "Expected request with Content-Type: application/json")
    ELSE IF req.body = "syntax"
    THEN TextResponse(400, "Failed to parse the request body as JSON")
    ELSE IF req.body = "data"
    THEN TextResponse(422, "Failed to deserialize the JSON body into the target type")
    ELSE Pass

\* messages_handler and the two handlers it dispatches to, up to the
\* response: failure is the error of the first fallible step after
\* map_model that fails (cache, translation, upstream call, response
\* translation), or None
messages_handler(req, failure) ==
    IF ~map_model(req.model).ok THEN error_response("InvalidRequest")
    ELSE IF failure # None THEN error_response(failure)
    ELSE IF req.stream THEN [status |-> 200, body |-> [kind |-> "event-stream"]]
    ELSE [status |-> 200, body |-> [kind |-> "json", type |-> "message"]]

\* the route with its layers: the body limit, the extractor, the handler
post_messages(req, failure) ==
    IF RequestBodyLimitLayer(req) # Pass THEN RequestBodyLimitLayer(req)
    ELSE IF Json_from_request(req) # Pass THEN Json_from_request(req)
    ELSE messages_handler(req, failure)

\* Requests of clients: a body within or over the limit, with or without
\* the JSON content type, that is no JSON ("syntax"), JSON of another shape
\* ("data") or a MessagesRequest ("valid")
ClientRequests ==
    [content_length : {1, RequestBodyLimit, RequestBodyLimit + 1},
     json_content_type : BOOLEAN,
     body : {"syntax", "data", "valid"},
     model : {"claude-sonnet-4-5", "gpt-4"},
     stream : BOOLEAN]

\* the errors the steps of the handlers return
HandlerFailures ==
    {None, "Translation", "TokenExpired", "OAuthRefresh", "TooManyRequests",
     "Overloaded", "ServiceUnavailable", "GeminiApi", "Internal"}

notHttpVars ==
    <<streamVars, thinkVars, sigVars, oauthVars, healthVars, retryVars, sseVars,
      schemaVars, requestVars, mappingVars, detailVars, logVars, cacheVars>>

\* POST /v1/messages
PostMessages ==
    /\ \E req \in ClientRequests, failure \in HandlerFailures :
         http' = [any |-> TRUE, request |-> req, failure |-> failure,
                  response |-> post_messages(req, failure)]
    /\ UNCHANGED notHttpVars

NextHttp == PostMessages

SpecHttp == Init /\ [][NextHttp]_vars

\* the error type listed for a status
KindOfStatus ==
    [s \in {400} |-> "invalid_request_error"] @@ [s \in {401} |-> "authentication_error"]
    @@ [s \in {429} |-> "rate_limit_error"] @@ [s \in {529} |-> "overloaded_error"]
    @@ [s \in {500, 502, 503} |-> "api_error"]

\* C27: every error response sent to a client has a JSON body
\* {type: "error", error: {type, message}} whose error type is the one of
\* the status.
C27_ErrorBodyShape ==
    (http.any /\ http.response.status >= 400) =>
        /\ http.response.body.kind = "json"
        /\ http.response.body.type = "error"
        /\ DOMAIN http.response.body.error = {"type", "message"}
        /\ http.response.status \in DOMAIN KindOfStatus
        /\ http.response.body.error.type = KindOfStatus[http.response.status]

(***************************************************************************)
(* The order of the events of one streaming request                        *)
(* (server::handlers::stream_messages_handler).                            *)
(***************************************************************************)

\* Chunks whose parts are translated into several events each: text with a
\* <think> tag cut between two parts, a thought and a function call
OrderChunks(maxParts) ==
    { NoChunk }
    \cup { Chunk(TRUE, TRUE, ps, f, NoUsage) :
             ps \in SeqsUpTo({ Part("Text", t, FALSE, None) : t \in PlainTexts }
                               \cup { Part("Text", "t", TRUE, None),
                                      Part("FunctionCall", "get_weather", FALSE, "sig-xyz") },
                             maxParts),
             f \in {"STOP", None} }

UpstreamOrderChunk == \E chunk \in OrderChunks(MaxParts - parts_fed) : HandleChunk(chunk)

\* One streaming request with pings.
NextOrder == UpstreamOrderChunk \/ UpstreamError \/ UpstreamClosed \/ KeepAlivePing

SpecOrder == Init /\ [][NextOrder]_vars

\* a step of the loop that took a chunk from the upstream and translated it
TranslatedStep ==
    handler_pc = "streaming" /\ handler_pc' = "streaming" /\ chunk_count' = chunk_count + 1

\* a step of the loop that took an error from the upstream
UpstreamErrorStep ==
    handler_pc = "streaming" /\ handler_pc' = "done" /\ chunk_count' = chunk_count + 1

MaxDetails == 3    \* entries of error.details

RetryInfoType == "type.googleapis.com/google.rpc.RetryInfo"

DigitValue ==
    [c \in {"0"} |-> 0] @@ [c \in {"1"} |-> 1] @@ [c \in {"2"} |-> 2] @@ [c \in {"3"} |-> 3]
    @@ [c \in {"4"} |-> 4] @@ [c \in {"5"} |-> 5] @@ [c \in {"6"} |-> 6]
    @@ [c \in {"7"} |-> 7] @@ [c \in {"8"} |-> 8] @@ [c \in {"9"} |-> 9]

\* str::parse::<f64> for strings of decimal digits; NoDuration for Err
RECURSIVE parse_digits(_, _)
parse_digits(str, acc) ==
    IF str = "" THEN acc
    ELSE IF SubSeq(str, 1, 1) \notin DOMAIN DigitValue THEN NoDuration
    ELSE parse_digits(SubSeq(str, 2, Len(str)), acc * 10 + DigitValue[SubSeq(str, 1, 1)])

\* parse_duration_string on the string itself: strip_suffix('s'), parse,
\* then the cap and the conversion to milliseconds
parse_duration_str(duration_str) ==
    IF Len(duration_str) < 2 \/ SubSeq(duration_str, Len(duration_str), Len(duration_str)) # "s"
    THEN NoDuration
    ELSE LET seconds == parse_digits(SubSeq(duration_str, 1, Len(duration_str) - 1), 0)
         IN IF seconds = NoDuration THEN NoDuration ELSE parse_duration_string(seconds)

\* parse_retry_delay, the loop over details: `detail.get("@type")?.as_str()?`
\* returns None from the function at a detail without an "@type" string
RECURSIVE parse_retry_delay_details(_)
parse_retry_delay_details(details) ==
    IF details = <<>> THEN NoDuration
    ELSE IF Head(details).at_type = None THEN NoDuration
    ELSE IF Head(details).at_type = RetryInfoType /\ Head(details).retryDelay # None
    THEN parse_duration_str(Head(details).retryDelay)
    ELSE parse_retry_delay_details(Tail(details))

\* Details of upstream error bodies: RetryInfo with a delay below and above
\* the cap, with a delay that does not parse and without retryDelay; a
\* detail of another type; a detail without "@type"
DetailEntries ==
    {[at_type |-> RetryInfoType, retryDelay |-> d] : d \in {"40s", "120s", "40", None}}
        \cup {[at_type |-> "type.googleapis.com/google.rpc.ErrorInfo", retryDelay |-> None],
              [at_type |-> None, retryDelay |-> None]}

notDetailVars ==
    <<streamVars, thinkVars, sigVars, oauthVars, healthVars, retryVars, sseVars,
      schemaVars, requestVars, mappingVars, httpVars, logVars, cacheVars>>

\* with_retry, lines 133-154, after the first failure of an operation whose
\* error body has these details: the delay it sleeps
ChooseDelay ==
    /\ \E details \in SeqsUpTo(DetailEntries, MaxDetails) :
         LET google_delay == parse_retry_delay_details(details)
         IN \E b \in next_backoff(initial_interval, 0) :
              parsed' = [any |-> TRUE, details |-> details,
                         hinted |-> google_delay # NoDuration,
                         delay |-> IF google_delay # NoDuration THEN google_delay
                                   ELSE IF b.delay = NoDuration THEN fallback_delay
                                   ELSE b.delay]
    /\ UNCHANGED notDetailVars

NextDetails == ChooseDelay

SpecDetails == Init /\ [][NextDetails]_vars

\* the RetryInfo details with a retryDelay that parses
ParsableRetryInfo(details) ==
    {i \in 1..Len(details) :
        /\ details[i].at_type = RetryInfoType
        /\ details[i].retryDelay # None
        /\ parse_duration_str(details[i].retryDelay) # NoDuration}

\* C30: when the details hold a RetryInfo entry with a retryDelay that
\* parses, wherever it is and whatever precedes it, the wait is that delay
\* capped at 60 s; the backoff is used only when there is no such entry.
C30_RetryInfoAnywhere ==
    parsed.any =>
        LET hits == ParsableRetryInfo(parsed.details)
        IN IF hits = {} THEN ~parsed.hinted
           ELSE /\ parsed.hinted
                /\ parsed.delay <= delay_cap_seconds * 1000
                /\ \E i \in hits :
                     parsed.delay = parse_duration_str(parsed.details[i].retryDelay)

(***************************************************************************)
(* utils::logging::sanitize.                                               *)
(***************************************************************************)
MaxLogWords == 3    \* words of a log line

\* `|c: char| c.is_whitespace() || c == '"' || c == '\''`
IsTokenEnd(c) == IsWhitespace(c) \/ c = "\"" \/ c = "'"

\* one `if let Some(pos) = result.find(pattern)` block: the run from the
\* first occurrence of the pattern to the next delimiter is replaced
redact_first(result, pattern, placeholder) ==
    LET start == Find(result, pattern)
    IN IF start = -1 THEN result
       ELSE LET ends == {i \in start..(Len(result) - 1) :
                            IsTokenEnd(SubSeq(result, i + 1, i + 1))}
                end == IF ends = {} THEN Len(result) ELSE Min(ends)
            IN StrTo(result, start) \o placeholder \o StrFrom(result, end)

sanitize(input) ==
    redact_first(redact_first(input, "ya29.", "[REDACTED_ACCESS_TOKEN]"),
                 "1//0", "[REDACTED_REFRESH_TOKEN]")

\* Words of log lines: access tokens, refresh tokens and others
AccessTokens == {"ya29.a0Af", "ya29.c0Bx"}
RefreshTokens == {"1//01S6", "1//0gQz"}
LogWords == AccessTokens \cup RefreshTokens \cup {"Bearer", "token="}

\* a log line: words, each followed by a space or a quote, or by nothing
RECURSIVE Line(_)
Line(words) ==
    IF words = <<>> THEN ""
    ELSE Head(words).word \o Head(words).sep \o Line(Tail(words))

notLogVars ==
    <<streamVars, thinkVars, sigVars, oauthVars, healthVars, retryVars, sseVars,
      schemaVars, requestVars, mappingVars, httpVars, detailVars, cacheVars>>

\* a message is sanitized before it is logged
Sanitize ==
    /\ ~logged.any
    /\ \E words \in SeqsUpTo([word : LogWords, sep : {" ", "\"", ""}], MaxLogWords) :
         logged' = [any |-> TRUE, words |-> words, input |-> Line(words),
                    output |-> sanitize(Line(words))]
    /\ UNCHANGED notLogVars

NextLog == Sanitize

SpecLog == Init /\ [][NextLog]_vars

\* C35: the output of sanitize contains no access token and no refresh
\* token of the input, however many the input has.
C35_NoTokenInOutput ==
    logged.any =>
        \A i \in DOMAIN logged.words :
            logged.words[i].word \in AccessTokens \cup RefreshTokens =>
                Find(logged.output, logged.words[i].word) = -1

(***************************************************************************)
(* The first chunk of a stream (StreamTranslator::translate_chunk).        *)
(***************************************************************************)

\* Chunks with and without envelope, candidate and usage metadata
FirstChunks(maxParts) ==
    { NoChunk }
    \cup { Chunk(TRUE, FALSE, <<>>, None, u) : u \in Usages }
    \cup { Chunk(TRUE, TRUE, ps, f, u) :
             ps \in SeqsUpTo({ Part("Text", "t", TRUE, None),
                               Part("FunctionCall", "get_weather", FALSE, None) },
                             maxParts),
             f \in {"STOP", None},
             u \in Usages }

UpstreamFirstChunk == \E chunk \in FirstChunks(MaxParts - parts_fed) : HandleChunk(chunk)

NextFirst == UpstreamFirstChunk \/ UpstreamError \/ UpstreamClosed

SpecFirst == Init /\ [][NextFirst]_vars

\* C36: a first chunk without candidate, or without envelope, is translated
\* into MessageStart alone, with the prompt token count of the chunk's
\* usage metadata (0 when it has none); and the client gets MessageStart
\* once, from the first translate_chunk call and as its first event.
C36_MessageStartOnce ==
    /\ (last_call.any /\ chunk_count = 1
          /\ ~(last_call.chunk.response /\ last_call.chunk.candidate)) =>
          last_call.events =
             <<MessageStartEv(IF last_call.chunk.response /\ last_call.chunk.usage.present
                              THEN last_call.chunk.usage.prompt ELSE 0)>>
    /\ Cardinality({p \in Positions(ClientEvents) :
                       ClientEvents[p].type = "message_start"})
          = (IF last_call.any THEN 1 ELSE 0)
    /\ last_call.any => ClientEvents[1].type = "message_start"

\* the first chunk had usage metadata and no candidate
C36_Witness ==
    /\ last_call.any /\ chunk_count = 1
    /\ last_call.chunk = Chunk(TRUE, FALSE, <<>>, None, SomeUsage)
    /\ sse_out = <<MessageStartEv(10), KeepAliveComment>>

(***************************************************************************)
(* Text held back by the <think> extractor when the stream finishes.       *)
(***************************************************************************)

\* The text of a run of parts
RECURSIVE ConcatText(_)
ConcatText(parts) == IF parts = <<>> THEN "" ELSE Head(parts).text \o ConcatText(Tail(parts))

\* The text of the TextDelta and ThinkingDelta events
RECURSIVE DeltaText(_)
DeltaText(events) ==
    IF events = <<>> THEN ""
    ELSE (IF /\ Head(events).type = "content_block_delta"
             /\ Head(events).kind \in {"text_delta", "thinking_delta"}
          THEN Head(events).text ELSE "")
         \o DeltaText(Tail(events))

\* A text without its complete tags: <think> outside of thinking, </think>
\* inside
RECURSIVE Untagged(_, _)
Untagged(text, in_thinking) ==
    LET tag == IF in_thinking THEN CloseTag ELSE OpenTag
        idx == Find(text, tag)
    IN IF idx = -1 THEN text
       ELSE StrTo(text, idx) \o Untagged(StrFrom(text, idx + Len(tag)), ~in_thinking)

\* C37: a stream that is one chunk of plain text parts with a finish_reason
\* gives the client, in its TextDelta and ThinkingDelta events, every
\* character of the text that is not part of a complete tag, once and in
\* order; nothing stays behind in the carry-over buffer.
C37_HeldTextNotLost ==
    (/\ last_call.any /\ chunk_count = 1
     /\ last_call.chunk.response /\ last_call.chunk.candidate
     /\ last_call.chunk.finish_reason # None
     /\ \A i \in DOMAIN last_call.chunk.parts :
           last_call.chunk.parts[i].kind = "Text" /\ ~last_call.chunk.parts[i].thought) =>
        /\ DeltaText(last_call.events) = Untagged(ConcatText(last_call.chunk.parts), FALSE)
        /\ last_call.events[Len(last_call.events)] = MessageStopEv

(***************************************************************************)
(* The context cache (cache::manager::CacheManager) and the handlers' use  *)
(* of it.  A client request is reduced to what the cache reads and to the  *)
(* sampling parameters; cache.entries is cache_map and translation_cache   *)
(* together, a function from cache keys to [name, translation].            *)
(***************************************************************************)

\* translate_request, steps 5 to 9 and the result
translate_request_config(req) ==
    [contents |-> req.content,
     system_instruction |-> req.system,
     generation_config |-> [max_output_tokens |-> req.max_tokens,
                            temperature |-> req.temperature],
     cached_content |-> None]

\* CacheManager::generate_cache_key: what the SHA-256 is taken of
generate_cache_key(gemini_model, gemini_request) ==
    <<gemini_model, gemini_request.system_instruction, gemini_request.contents>>

\* CacheManager::get_or_create_cache: [entries, cache_name, cached_translation],
\* the Option<GenerateContentRequest> as a sequence of length 0 or 1
get_or_create_cache(entries, req, created) ==
    LET nothing == [entries |-> entries, cache_name |-> None,
                    cached_translation |-> <<>>]
        gemini_request == translate_request_config(req)
        cache_key == generate_cache_key(map_model(req.model).gemini, gemini_request)
    IN IF ~req.cache_control THEN nothing
       ELSE IF cache_key \in DOMAIN entries
       THEN [entries |-> entries, cache_name |-> entries[cache_key].name,
             cached_translation |-> <<entries[cache_key].translation>>]
       ELSE IF ~created THEN nothing
       ELSE LET cache_name == "cachedContents/" \o req.content
            IN [entries |-> map_insert(entries, cache_key,
                                       [name |-> cache_name,
                                        translation |-> gemini_request]),
                cache_name |-> cache_name, cached_translation |-> <<gemini_request>>]

\* Requests of clients: two conversations, with and without cache_control
\* markers, and two settings of the sampling parameters
CacheRequests ==
    [model : {"claude-sonnet-4-5"}, system : {"sys"}, content : {"c1", "c2"},
     cache_control : BOOLEAN, max_tokens : {100, 200}, temperature : {0, 1}]

notCacheVars ==
    <<streamVars, thinkVars, sigVars, oauthVars, healthVars, retryVars, sseVars,
      schemaVars, requestVars, mappingVars, httpVars, detailVars, logVars>>

\* a handler, from map_model to the upstream call: the cache is asked, the
\* cached translation is used if there is one, and the cache name is set;
\* created says whether create_cache succeeds on a miss
ServeThroughCache ==
    /\ \E req \in CacheRequests, created \in BOOLEAN :
         LET got == get_or_create_cache(cache.entries, req, created)
             gemini_req == IF got.cached_translation # <<>> THEN got.cached_translation[1]
                           ELSE translate_request_config(req)
             sent == IF got.cache_name # None
                     THEN [gemini_req EXCEPT !.cached_content = got.cache_name]
                     ELSE gemini_req
         IN cache' = [any |-> TRUE, entries |-> got.entries, request |-> req,
                      hit |-> generate_cache_key(map_model(req.model).gemini,
                                                 translate_request_config(req))
                                 \in DOMAIN cache.entries /\ req.cache_control,
                      cache_name |-> got.cache_name, sent |-> sent]
    /\ UNCHANGED notCacheVars

NextCache == ServeThroughCache

SpecCache == Init /\ [][NextCache]_vars

\* C38: on a cache hit the request sent to the upstream is the translation
\* of the current client request with cached_content set, and nothing else
\* changed.
C38_HitSendsCurrentRequest ==
    (cache.any /\ cache.hit) =>
        cache.sent = [translate_request_config(cache.request)
                         EXCEPT !.cached_content = cache.cache_name]

(***************************************************************************)
(* Progress of get_token under SpecOAuthFair.                              *)
(***************************************************************************)
InGetToken(c) == callers[c].pc \notin {"idle", "done"}

Returned(c) ==
    /\ callers[c].pc = "done"
    /\ callers[c].result.kind \in {"Ok", "Err"}

\* a refresh of caller c fails in this step
RefreshFails(c) ==
    /\ callers[c].pc = "http"
    /\ callers'[c].pc = "done"

\* C40: every get_token call that has been entered eventually returns a
\* token or an error, whatever the interleaving of the callers; and the step
\* in which a refresh fails leaves the refresh mutex free.
C40_GetTokenReturns ==
    /\ \A c \in Callers : InGetToken(c) ~> Returned(c)
    /\ [][\A c \in Callers : RefreshFails(c) => refresh_lock' = NoHolder]_vars

\* one caller's refresh has failed and another caller, which had found the
\* token expired, has refreshed it after that
C40_Witness ==
    \E c, d \in Callers :
        /\ c # d
        /\ Returned(c) /\ callers[c].result.kind = "Err"
        /\ callers[c].result.via = "refresh"
        /\ Returned(d) /\ callers[d].result.kind = "Ok"
        /\ callers[d].result.via = "refresh"
        /\ callers[d].seen # -1

====
